---- MODULE Spec2Model ----
(***************************************************************************)
(* Model of the German Bridge game server (backend/src).                   *)
(*                                                                         *)
(* Part 1: the per-game state machine GameState (game_state.rs) with the   *)
(* card, deck, hand, trick, bidding and scoring logic it calls             *)
(* (game_logic/*.rs).  One action models one call of                       *)
(* GameState::apply_action, accepted or rejected.                          *)
(***************************************************************************)
EXTENDS Integers, Sequences, FiniteSets, TLC

(***************************************************************************)
(* Bounds of the model.                                                    *)
(***************************************************************************)
\* The program's deck has 13 ranks per suit (card.rs:12-26).  The model plays
\* games with decks of 1..NumRanks ranks per suit; num_ranks is a game's choice.
NumRanks == 2
\* Number of random streams thread_rng may produce for Deck::shuffle.
MaxSeeds == 2
\* Largest number of tricks a submitted Bid carries (a u8 in the program).
MaxBid == 2
\* Calls are explored while round_number <= MaxRound (see RoundsExplored).
MaxRound == 1
\* The clock advances in steps of TickSecs seconds, up to MaxClock.
TickSecs == 30
MaxClock == 90
\* Number of connections (calls of handle_socket) opened in one behaviour.
MaxTransports == 3
\* A client's Ping is answered while no channel holds MaxQueue messages.
MaxQueue == 1
\* Number of calls of start_turn_timer in one behaviour.
MaxTimers == 2
MaxCalls == 2
MaxOps == 3
\* Number of lobbies created in one behaviour.
MaxLobbies == 2
\* The clients of the lobby manager are the players 1..MaxUsers; a
\* CreateLobby carries a player_count of 0..MaxUsers (a usize in the program).
MaxUsers == 3
\* Number of calls of start_game that pass their checks in one behaviour.
MaxStarts == 1
\* Number of games the manager stores side by side, and the number of
\* calls made on them in one behaviour.
MaxGames == 2
MaxRegOps == 2
\* Number of client messages the router takes in one behaviour.
MaxRouted == 4

(***************************************************************************)
(* Program constants.                                                      *)
(***************************************************************************)
MinPlayers == 2
MaxPlayers == 4
U8 == 256

Suits == <<"Clubs", "Spades", "Hearts", "Diamonds">>
SuitSet == {Suits[i] : i \in 1..Len(Suits)}
Ranks == 0..(NumRanks - 1)
NoSuit == "None"
NoPlayer == 0

Card(s, r) == [suit |-> s, rank |-> r]
Cards == {Card(s, r) : s \in SuitSet, r \in Ranks}
NoCard == [suit |-> NoSuit, rank |-> 0]

\* total_cards (52 in start_round and should_continue_game) of a deck with
\* nr ranks per suit
TotalCards(nr) == Len(Suits) * nr

(***************************************************************************)
(* card.rs                                                                 *)
(***************************************************************************)
\* Card::beats with the two trump tests left out
BeatsIgnoringTrump(a, b, trump, lead) ==
    IF a.suit = b.suit THEN a.rank > b.rank ELSE a.suit = lead

\* Card::beats(self = a, other = b, trump, lead_suit)
Beats(a, b, trump, lead) ==
    LET self_is_trump == trump # NoSuit /\ a.suit = trump
        other_is_trump == trump # NoSuit /\ b.suit = trump
    IN  IF self_is_trump /\ ~other_is_trump THEN TRUE
        ELSE IF ~self_is_trump /\ other_is_trump THEN FALSE
        ELSE IF a.suit = b.suit THEN a.rank > b.rank
        ELSE a.suit = lead

(***************************************************************************)
(* deck.rs                                                                 *)
(***************************************************************************)
\* Deck::new_german_bridge: suit-major, ranks ascending
NewGermanBridge(nr) ==
    [i \in 1..TotalCards(nr) |->
        Card(Suits[((i - 1) \div nr) + 1], (i - 1) % nr)]

\* One draw of the random stream `seed`: gen_range(0..=i)
Draw(seed, i) == (seed * (i + 3) + ((i * i) \div 2) + seed * seed) % (i + 1)

Swap(seq, i, j) == [seq EXCEPT ![i] = seq[j], ![j] = seq[i]]

\* Deck::shuffle (SliceRandom::shuffle): Fisher-Yates, i from len-1 down to 1,
\* 0-based positions i and Draw(seed, i).
RECURSIVE ShuffleFrom(_, _, _)
ShuffleFrom(seq, seed, i) ==
    IF i < 1 THEN seq
    ELSE ShuffleFrom(Swap(seq, i + 1, Draw(seed, i) + 1), seed, i - 1)

Shuffle(seq, seed) == ShuffleFrom(seq, seed, Len(seq) - 1)

\* Deck::deal: pops the cards off the end of the deck one by one until the
\* deck is empty, the k-th popped card (k = 0, 1, ..) going to hand k % n.
\* Result: hands[i] for seat i in 1..n.
Deal(cards, n) ==
    LET len == Len(cards)
        size(i) == IF i - 1 < len THEN ((len - i) \div n) + 1 ELSE 0
    IN  [i \in 1..n |->
            [j \in 1..size(i) |-> cards[len - ((i - 1) + (j - 1) * n)]]]

SeqToSet(seq) == {seq[i] : i \in 1..Len(seq)}

\* Hand::has_card
HasCard(hand, c) == c \in SeqToSet(hand)

RECURSIVE Filter(_, _)
Filter(seq, suit) ==
    IF seq = <<>> THEN <<>>
    ELSE IF Head(seq).suit = suit THEN <<Head(seq)>> \o Filter(Tail(seq), suit)
    ELSE Filter(Tail(seq), suit)

\* Hand::valid_plays without the follow-suit filter
ValidPlaysAnyCard(hand, lead_suit) == hand

\* Hand::valid_plays
ValidPlays(hand, lead_suit) ==
    IF lead_suit = NoSuit THEN hand
    ELSE LET cards_in_suit == Filter(hand, lead_suit)
         IN  IF cards_in_suit = <<>> THEN hand ELSE cards_in_suit

\* position of the first occurrence of c in the hand, 0 if absent
Position(hand, c) ==
    IF HasCard(hand, c)
    THEN CHOOSE i \in 1..Len(hand) :
            hand[i] = c /\ \A j \in 1..(i - 1) : hand[j] # c
    ELSE 0

RemoveAt(seq, pos) ==
    [i \in 1..(Len(seq) - 1) |-> IF i < pos THEN seq[i] ELSE seq[i + 1]]

\* Hand::play_card with the removal forgotten
PlayCardFromHandKeeps(hand, c) ==
    [ok |-> Position(hand, c) # 0, hand |-> hand]

\* Hand::play_card: [ok, hand]
PlayCardFromHand(hand, c) ==
    LET pos == Position(hand, c)
    IN  IF pos # 0 THEN [ok |-> TRUE, hand |-> RemoveAt(hand, pos)]
        ELSE [ok |-> FALSE, hand |-> hand]

(***************************************************************************)
(* trick.rs                                                                *)
(***************************************************************************)
\* Trick::new
NewTrick == [lead_suit |-> NoSuit, cards |-> <<>>]

\* Trick::add_card
AddCard(trick, player_id, c) ==
    [lead_suit |-> IF trick.cards = <<>> THEN c.suit ELSE trick.lead_suit,
     cards |-> Append(trick.cards, [player |-> player_id, card |-> c])]

\* Trick::is_complete
TrickIsComplete(trick, num_players) == Len(trick.cards) = num_players

\* the loop of Trick::winner over cards[i..], carrying (winner_id, winning_card)
RECURSIVE WinnerFrom(_, _, _, _, _)
WinnerFrom(cards, i, best, trump, lead) ==
    IF i > Len(cards) THEN best.player
    ELSE IF Beats(cards[i].card, best.card, trump, lead)
         THEN WinnerFrom(cards, i + 1, cards[i], trump, lead)
         ELSE WinnerFrom(cards, i + 1, best, trump, lead)

\* Trick::winner: NoPlayer stands for None
TrickWinner(trick, trump) ==
    IF trick.cards = <<>> THEN NoPlayer
    ELSE IF trick.lead_suit = NoSuit THEN NoPlayer
    ELSE WinnerFrom(trick.cards, 2, trick.cards[1], trump, trick.lead_suit)

(***************************************************************************)
(* bidding.rs                                                              *)
(***************************************************************************)
RECURSIVE SumOver(_, _)
SumOver(f, S) ==
    IF S = {} THEN 0
    ELSE LET x == CHOOSE y \in S : TRUE
         IN  f[x] + SumOver(f, S \ {x})

\* the values of a map summed
SumValues(f) == SumOver(f, DOMAIN f)

\* HashMap::insert
Insert(f, k, v) == [x \in (DOMAIN f) \cup {k} |-> IF x = k THEN v ELSE f[x]]

EmptyMap == [x \in {} |-> 0]

\* position of p in a player list, unwrap_or(0): 0-based
IndexOf(order, p) ==
    IF \E i \in 1..Len(order) : order[i] = p
    THEN (CHOOSE i \in 1..Len(order) :
            order[i] = p /\ \A j \in 1..(i - 1) : order[j] # p) - 1
    ELSE 0

\* the seat after p, wrapping
NextInOrder(order, p) == order[((IndexOf(order, p) + 1) % Len(order)) + 1]

\* BiddingState::new
NewBiddingState(starting_player, order, cards) ==
    [bids |-> EmptyMap, current_bidder |-> starting_player,
     player_order |-> order, cards_this_round |-> cards]

\* BiddingState::is_complete
BiddingIsComplete(bs) == Cardinality(DOMAIN bs.bids) = Len(bs.player_order)

\* BiddingState::is_last_bidder
IsLastBidder(bs, player_id) ==
    /\ Cardinality(DOMAIN bs.bids) = Len(bs.player_order) - 1
    /\ bs.current_bidder = player_id

\* BiddingState::validate_last_bid with the new bid left out of the sum
ValidateLastBidPriorOnly(bs, bid) ==
    IF SumValues(bs.bids) % U8 = bs.cards_this_round % U8
    THEN "InvalidMove" ELSE "Ok"

\* BiddingState::validate_last_bid (u8 arithmetic)
ValidateLastBid(bs, bid) ==
    LET sum_of_bids == SumValues(bs.bids) % U8
        total_with_this_bid == (sum_of_bids + bid) % U8
    IN  IF total_with_this_bid = bs.cards_this_round % U8
        THEN "InvalidMove" ELSE "Ok"

\* BiddingState::advance_bidder
AdvanceBidder(bs) ==
    [bs EXCEPT !.current_bidder = NextInOrder(bs.player_order, bs.current_bidder)]

\* BiddingState::place_bid applying the last-bidder restriction to every bidder
PlaceBidSumForAll(bs, player_id, bid) ==
    IF player_id # bs.current_bidder
    THEN [result |-> "NotPlayerTurn", bs |-> bs]
    ELSE IF bid > bs.cards_this_round
    THEN [result |-> "InvalidMove", bs |-> bs]
    ELSE IF ValidateLastBid(bs, bid) # "Ok"
    THEN [result |-> "InvalidMove", bs |-> bs]
    ELSE LET placed == [bs EXCEPT !.bids = Insert(@, player_id, bid)]
         IN  [result |-> "Ok",
              bs |-> IF ~BiddingIsComplete(placed) THEN AdvanceBidder(placed)
                     ELSE placed]

\* BiddingState::place_bid that never moves current_bidder on
PlaceBidStaysOnBidder(bs, player_id, bid) ==
    IF player_id # bs.current_bidder
    THEN [result |-> "NotPlayerTurn", bs |-> bs]
    ELSE IF bid > bs.cards_this_round
    THEN [result |-> "InvalidMove", bs |-> bs]
    ELSE IF IsLastBidder(bs, player_id) /\ ValidateLastBid(bs, bid) # "Ok"
    THEN [result |-> "InvalidMove", bs |-> bs]
    ELSE [result |-> "Ok", bs |-> [bs EXCEPT !.bids = Insert(@, player_id, bid)]]

\* BiddingState::place_bid: [result, bs]
PlaceBid(bs, player_id, bid) ==
    IF player_id # bs.current_bidder
    THEN [result |-> "NotPlayerTurn", bs |-> bs]
    ELSE IF bid > bs.cards_this_round
    THEN [result |-> "InvalidMove", bs |-> bs]
    ELSE IF IsLastBidder(bs, player_id) /\ ValidateLastBid(bs, bid) # "Ok"
    THEN [result |-> "InvalidMove", bs |-> bs]
    ELSE LET placed == [bs EXCEPT !.bids = Insert(@, player_id, bid)]
         IN  [result |-> "Ok",
              bs |-> IF ~BiddingIsComplete(placed) THEN AdvanceBidder(placed)
                     ELSE placed]

(***************************************************************************)
(* scoring.rs                                                              *)
(***************************************************************************)
Abs(x) == IF x < 0 THEN -x ELSE x

\* ScoreCalculator::calculate_player_score with the penalty's sign lost
CalculatePlayerScoreUnsigned(bid, won) ==
    IF bid = won THEN 10 + (won * won)
    ELSE LET diff == Abs(won - bid) IN diff * diff

\* ScoreCalculator::calculate_player_score
CalculatePlayerScore(bid, won) ==
    IF bid = won THEN 10 + (won * won)
    ELSE LET diff == Abs(won - bid) IN -(diff * diff)

\* ScoreCalculator::calculate_round_scores: one entry per recorded bid,
\* tricks_won.get(player).unwrap_or(0)
CalculateRoundScores(bids, won) ==
    [p \in DOMAIN bids |->
        CalculatePlayerScore(bids[p], IF p \in DOMAIN won THEN won[p] ELSE 0)]

(***************************************************************************)
(* game_state.rs: GameState                                                *)
(*                                                                         *)
(* Players are the seats 1..n; `players` is the turn order <<1, .., n>>.   *)
(* The field deck (always empty after a deal) is not part of this state;   *)
(* turn_deadline, written only by the game manager, is declared with the   *)
(* manager's state below.                                                  *)
(***************************************************************************)
VARIABLES
    num_ranks,          \* ranks per suit of the deck this game deals
    players,            \* Vec<PlayerId>
    phase,              \* GamePhase
    round_number,
    cards_per_player,
    hands,              \* HashMap<PlayerId, Hand>
    current_trick,      \* Trick
    completed_tricks,   \* Vec<CompletedTrick>
    round_scores,       \* HashMap<PlayerId, i32>
    total_scores,       \* HashMap<PlayerId, i32>
    trump_suit,         \* Option<Suit>
    player_bids,        \* HashMap<PlayerId, u8>
    tricks_won,         \* HashMap<PlayerId, u8>
    current_player,
    first_bidder,
    bidding_state,      \* Option<BiddingState>: <<>> or <<bs>>
    last                \* what the latest apply_action call returned, with
                        \* the player and the action if it was accepted

gameVars == <<num_ranks, players, phase, round_number, cards_per_player, hands,
              current_trick, completed_tricks, round_scores, total_scores,
              trump_suit, player_bids, tricks_won, current_player,
              first_bidder, bidding_state>>

\* The server around the game: the connection manager (connection.rs), the
\* transports of handle_socket (server.rs) and the game manager (game.rs).
VARIABLES
    clock,              \* Instant::now(), in seconds
    sessions,           \* ConnectionManager.sessions: PlayerId -> PlayerSession
    channels,           \* the mpsc channels made by handle_socket
    transports,         \* the running calls of handle_socket
    games,              \* GameManager.games: the ids of the stored games
    turn_deadline,      \* GameState.turn_deadline: Option<Instant>
    timer_handles,      \* GameManager.timer_handles: Option of a task
    tasks,              \* the tasks spawned by start_turn_timer
    arming,             \* the running calls of start_turn_timer
    calls,              \* the running calls of handle_player_action
    applied             \* number of actions applied to the stored game

\* The lobby manager (lobby.rs) and the games it starts.
VARIABLES
    lobbies,            \* LobbyManager.lobbies: LobbyId -> Lobby
    lobby_ids,          \* number of lobby ids Uuid::new_v4 has yielded
    starts,             \* the calls of start_game past their first block
    started,            \* the player lists of the games start_game created
    answer              \* what the latest call of a LobbyManager method
                        \* returned, with the lobby as it was before the call

lobbyVars == <<lobbies, lobby_ids, starts, started, answer>>

\* The game manager (game.rs) with several stored games.
VARIABLES
    game_map,           \* GameManager.games: GameId -> Game
    handle_map,         \* GameManager.timer_handles: GameId -> JoinHandle
    task_list,          \* the tasks spawned by start_turn_timer
    arm_map,            \* the running calls of start_turn_timer, by game
    call_map            \* the running calls of handle_player_action, by caller

regVars == <<game_map, handle_map, task_list, arm_map, call_map>>

\* The message router's indices (router.rs) and the calls of the connection
\* manager's methods.
VARIABLES
    player_to_game,     \* MessageRouter.player_to_game: PlayerId -> GameId
    player_to_lobby,    \* MessageRouter.player_to_lobby: PlayerId -> LobbyId
    reply,              \* what the latest call of a ConnectionManager method
                        \* was given and returned, with the sessions and
                        \* the channels as they were before the call
    routed              \* number of client messages route_message has taken

routerVars == <<player_to_game, player_to_lobby, reply, routed>>

serverVars == <<clock, sessions, channels, transports, games, turn_deadline,
                timer_handles, tasks, arming, calls, applied, lobbyVars,
                regVars, routerVars>>

vars == <<num_ranks, players, phase, round_number, cards_per_player, hands,
          current_trick, completed_tricks, round_scores, total_scores,
          trump_suit, player_bids, tricks_won, current_player,
          first_bidder, bidding_state, last, serverVars>>

\* the GameState as one value
State ==
    [num_ranks |-> num_ranks, players |-> players, phase |-> phase,
     round_number |-> round_number,
     cards_per_player |-> cards_per_player, hands |-> hands,
     current_trick |-> current_trick, completed_tricks |-> completed_tricks,
     round_scores |-> round_scores, total_scores |-> total_scores,
     trump_suit |-> trump_suit, player_bids |-> player_bids,
     tricks_won |-> tricks_won, current_player |-> current_player,
     first_bidder |-> first_bidder, bidding_state |-> bidding_state]

\* the variables of the GameState hold the value s
GameIs(s) ==
    /\ num_ranks = s.num_ranks
    /\ players = s.players
    /\ phase = s.phase
    /\ round_number = s.round_number
    /\ cards_per_player = s.cards_per_player
    /\ hands = s.hands
    /\ current_trick = s.current_trick
    /\ completed_tricks = s.completed_tricks
    /\ round_scores = s.round_scores
    /\ total_scores = s.total_scores
    /\ trump_suit = s.trump_suit
    /\ player_bids = s.player_bids
    /\ tricks_won = s.tricks_won
    /\ current_player = s.current_player
    /\ first_bidder = s.first_bidder
    /\ bidding_state = s.bidding_state

Seeds == 0..(MaxSeeds - 1)

\* start_round, except that the round is opened by the first seat whoever
\* the first bidder is
StartRoundFromFirstSeat(s, seed, trump) ==
    LET num_players == Len(s.players)
        max_cards_per_player == TotalCards(s.num_ranks) \div num_players
        wrap == s.round_number > max_cards_per_player
        rn == IF wrap THEN 1 ELSE s.round_number
        dealt == Deal(Shuffle(NewGermanBridge(s.num_ranks), seed), num_players)
    IN  [s EXCEPT
            !.trump_suit = trump,
            !.round_number = rn,
            !.cards_per_player = rn,
            !.hands = [p \in SeqToSet(s.players) |->
                          dealt[IndexOf(s.players, p) + 1]],
            !.phase = "Bidding",
            !.current_trick = NewTrick,
            !.completed_tricks = <<>>,
            !.round_scores = EmptyMap,
            !.player_bids = EmptyMap,
            !.tricks_won = [p \in (DOMAIN s.tricks_won) \cup SeqToSet(s.players)
                               |-> IF p \in SeqToSet(s.players) THEN 0
                                   ELSE s.tricks_won[p]],
            !.current_player = s.players[1],
            !.bidding_state =
                <<NewBiddingState(s.players[1], s.players, rn)>>]

\* GameState::start_round; seed and trump are what thread_rng yields
StartRound(s, seed, trump) ==
    LET num_players == Len(s.players)
        max_cards_per_player == TotalCards(s.num_ranks) \div num_players
        wrap == s.round_number > max_cards_per_player
        rn == IF wrap THEN 1 ELSE s.round_number
        dealt == Deal(Shuffle(NewGermanBridge(s.num_ranks), seed), num_players)
    IN  [s EXCEPT
            !.trump_suit = trump,
            !.round_number = rn,
            !.cards_per_player = rn,
            !.hands = [p \in SeqToSet(s.players) |->
                          dealt[IndexOf(s.players, p) + 1]],
            !.phase = "Bidding",
            !.current_trick = NewTrick,
            !.completed_tricks = <<>>,
            !.round_scores = EmptyMap,
            !.player_bids = EmptyMap,
            !.tricks_won = [p \in (DOMAIN s.tricks_won) \cup SeqToSet(s.players)
                               |-> IF p \in SeqToSet(s.players) THEN 0
                                   ELSE s.tricks_won[p]],
            !.current_player = s.first_bidder,
            !.bidding_state =
                <<NewBiddingState(s.first_bidder, s.players, rn)>>]

\* GameState::new
NewGameState(nr, n, seed, trump) ==
    LET order == [i \in 1..n |-> i]
        first_player == order[1]
    IN  StartRound(
            [num_ranks |-> nr,
             players |-> order, phase |-> "Bidding", round_number |-> 1,
             cards_per_player |-> 1, hands |-> EmptyMap,
             current_trick |-> NewTrick, completed_tricks |-> <<>>,
             round_scores |-> EmptyMap,
             total_scores |-> [p \in SeqToSet(order) |-> 0],
             trump_suit |-> NoSuit, player_bids |-> EmptyMap,
             tricks_won |-> [p \in SeqToSet(order) |-> 0],
             current_player |-> first_player, first_bidder |-> first_player,
             bidding_state |-> <<>>],
            seed, trump)

\* the two shapes of protocol::PlayerAction
BidAction(n) == [kind |-> "Bid", tricks |-> n, card |-> NoCard]
PlayCardAction(c) == [kind |-> "PlayCard", tricks |-> 0, card |-> c]

\* GameState::validate_bid
ValidateBid(s, player_id, bid) ==
    IF bid > s.cards_per_player THEN "InvalidMove"
    ELSE IF s.bidding_state # <<>> /\ IsLastBidder(s.bidding_state[1], player_id)
    THEN ValidateLastBid(s.bidding_state[1], bid)
    ELSE "Ok"

\* GameState::validate_action without the phase test of the Bid arm
ValidateActionBidAnyPhase(s, player_id, action) ==
    IF player_id # s.current_player THEN "NotPlayerTurn"
    ELSE IF player_id \notin SeqToSet(s.players) THEN "PlayerNotInGame"
    ELSE IF action.kind = "Bid"
    THEN ValidateBid(s, player_id, action.tricks)
    ELSE IF s.phase # "Playing" THEN "InvalidMove"
         ELSE IF player_id \notin DOMAIN s.hands THEN "PlayerNotInGame"
         ELSE IF ~HasCard(s.hands[player_id], action.card) THEN "InvalidMove"
         ELSE IF ~HasCard(ValidPlays(s.hands[player_id],
                                     s.current_trick.lead_suit), action.card)
         THEN "InvalidMove"
         ELSE "Ok"

\* GameState::validate_action
ValidateAction(s, player_id, action) ==
    IF player_id # s.current_player THEN "NotPlayerTurn"
    ELSE IF player_id \notin SeqToSet(s.players) THEN "PlayerNotInGame"
    ELSE IF action.kind = "Bid"
    THEN IF s.phase # "Bidding" THEN "InvalidMove"
         ELSE ValidateBid(s, player_id, action.tricks)
    ELSE IF s.phase # "Playing" THEN "InvalidMove"
         ELSE IF player_id \notin DOMAIN s.hands THEN "PlayerNotInGame"
         ELSE IF ~HasCard(s.hands[player_id], action.card) THEN "InvalidMove"
         ELSE IF ~HasCard(ValidPlays(s.hands[player_id],
                                     s.current_trick.lead_suit), action.card)
         THEN "InvalidMove"
         ELSE "Ok"

\* GameState::should_continue_game with <= for <
ShouldContinueGameInclusive(s) ==
    s.round_number <= TotalCards(s.num_ranks) \div Len(s.players)

\* GameState::should_continue_game
ShouldContinueGame(s) ==
    s.round_number < TotalCards(s.num_ranks) \div Len(s.players)

\* GameState::advance_turn
AdvanceTurn(s) ==
    [s EXCEPT !.current_player = NextInOrder(s.players, s.current_player)]

\* GameState::calculate_round_scores
CalculateRoundScoresOf(s) ==
    LET rs == CalculateRoundScores(s.player_bids, s.tricks_won)
    IN  [s EXCEPT
            !.round_scores = rs,
            !.total_scores =
                [p \in (DOMAIN s.total_scores) \cup (DOMAIN rs) |->
                    (IF p \in DOMAIN s.total_scores THEN s.total_scores[p]
                     ELSE 0)
                    + (IF p \in DOMAIN rs THEN rs[p] ELSE 0)]]

\* complete_trick giving the lead to the seat after the current player
CompleteTrickNextLeads(s, seed, trump) ==
    LET winner == TrickWinner(s.current_trick, s.trump_suit)
        won == [s EXCEPT
                   !.tricks_won =
                       Insert(@, winner,
                              (IF winner \in DOMAIN @ THEN @[winner] ELSE 0) + 1),
                   !.completed_tricks =
                       Append(@, [winner |-> winner,
                                  cards |-> s.current_trick.cards,
                                  points |-> 0]),
                   !.current_trick = NewTrick,
                   !.current_player =
                       NextInOrder(s.players, s.current_player)]
        all_hands_empty == \A p \in DOMAIN won.hands : won.hands[p] = <<>>
        scored == [CalculateRoundScoresOf(won) EXCEPT !.phase = "RoundComplete"]
        advanced == [scored EXCEPT
                        !.round_number = @ + 1,
                        !.first_bidder = NextInOrder(s.players, s.first_bidder)]
    IN  IF winner = NoPlayer THEN [result |-> "InvalidMove", state |-> s]
        ELSE IF ~all_hands_empty THEN [result |-> "Ok", state |-> won]
        ELSE IF ShouldContinueGame(scored)
        THEN [result |-> "Ok", state |-> StartRound(advanced, seed, trump)]
        ELSE [result |-> "Ok",
              state |-> [scored EXCEPT !.phase = "GameComplete"]]

\* GameState::complete_trick: [result, state]
CompleteTrick(s, seed, trump) ==
    LET winner == TrickWinner(s.current_trick, s.trump_suit)
        won == [s EXCEPT
                   !.tricks_won =
                       Insert(@, winner,
                              (IF winner \in DOMAIN @ THEN @[winner] ELSE 0) + 1),
                   !.completed_tricks =
                       Append(@, [winner |-> winner,
                                  cards |-> s.current_trick.cards,
                                  points |-> 0]),
                   !.current_trick = NewTrick,
                   !.current_player = winner]
        all_hands_empty == \A p \in DOMAIN won.hands : won.hands[p] = <<>>
        scored == [CalculateRoundScoresOf(won) EXCEPT !.phase = "RoundComplete"]
        advanced == [scored EXCEPT
                        !.round_number = @ + 1,
                        !.first_bidder = NextInOrder(s.players, s.first_bidder)]
    IN  IF winner = NoPlayer THEN [result |-> "InvalidMove", state |-> s]
        ELSE IF ~all_hands_empty THEN [result |-> "Ok", state |-> won]
        ELSE IF ShouldContinueGame(scored)
        THEN [result |-> "Ok", state |-> StartRound(advanced, seed, trump)]
        ELSE [result |-> "Ok",
              state |-> [scored EXCEPT !.phase = "GameComplete"]]

\* GameState::apply_action, the Bid arm
ApplyBid(s, player_id, bid) ==
    LET recorded == [s EXCEPT !.player_bids = Insert(@, player_id, bid)]
        placed == PlaceBid(s.bidding_state[1], player_id, bid)
    IN  IF s.bidding_state = <<>> THEN [result |-> "Ok", state |-> recorded]
        ELSE IF placed.result # "Ok"
        THEN [result |-> placed.result, state |-> recorded]
        ELSE IF BiddingIsComplete(placed.bs)
        THEN [result |-> "Ok",
              state |-> [recorded EXCEPT !.phase = "Playing",
                                         !.current_player = s.first_bidder,
                                         !.bidding_state = <<>>]]
        ELSE [result |-> "Ok",
              state |-> [recorded EXCEPT
                            !.current_player = placed.bs.current_bidder,
                            !.bidding_state = <<placed.bs>>]]

\* GameState::apply_action, the PlayCard arm
ApplyPlayCard(s, player_id, c, seed, trump) ==
    LET played == IF player_id \in DOMAIN s.hands
                  THEN PlayCardFromHand(s.hands[player_id], c)
                  ELSE [ok |-> TRUE, hand |-> <<>>]
        removed == IF player_id \in DOMAIN s.hands
                   THEN [s EXCEPT !.hands[player_id] = played.hand]
                   ELSE s
        added == [removed EXCEPT
                     !.current_trick = AddCard(@, player_id, c)]
    IN  IF ~played.ok THEN [result |-> "InvalidMove", state |-> s]
        ELSE IF TrickIsComplete(added.current_trick, Len(s.players))
        THEN CompleteTrick(added, seed, trump)
        ELSE [result |-> "Ok", state |-> AdvanceTurn(added)]

\* GameState::apply_action: [result, state]
ApplyAction(s, player_id, action, seed, trump) ==
    LET valid == ValidateAction(s, player_id, action)
    IN  IF valid # "Ok" THEN [result |-> valid, state |-> s]
        ELSE IF action.kind = "Bid" THEN ApplyBid(s, player_id, action.tricks)
        ELSE ApplyPlayCard(s, player_id, action.card, seed, trump)

\* Option::None of an Option<PlayerAction>
NoAction == [kind |-> "None", tricks |-> 0, card |-> NoCard]

\* GameState::get_auto_action
GetAutoAction(s) ==
    IF s.phase = "Bidding" THEN BidAction(0)
    ELSE IF s.phase = "Playing"
    THEN IF s.current_player \in DOMAIN s.hands
         THEN LET valid_plays == ValidPlays(s.hands[s.current_player],
                                            s.current_trick.lead_suit)
              IN  IF valid_plays # <<>> THEN PlayCardAction(valid_plays[1])
                  ELSE NoAction
         ELSE NoAction
    ELSE NoAction

\* GameState::get_player_view showing the hand of the player to move
GetPlayerViewOfCurrent(s, player_id) ==
    [phase |-> s.phase,
     your_hand |-> IF s.current_player \in DOMAIN s.hands
                   THEN s.hands[s.current_player] ELSE <<>>,
     current_trick |-> s.current_trick.cards,
     scores |-> s.total_scores,
     trump_suit |-> s.trump_suit,
     current_player |-> s.current_player,
     your_turn |-> (s.current_player = player_id)]

\* GameState::get_player_view (the game_id it copies is left out)
GetPlayerView(s, player_id) ==
    [phase |-> s.phase,
     your_hand |-> IF player_id \in DOMAIN s.hands
                   THEN s.hands[player_id] ELSE <<>>,
     current_trick |-> s.current_trick.cards,
     scores |-> s.total_scores,
     trump_suit |-> s.trump_suit,
     current_player |-> s.current_player,
     your_turn |-> (s.current_player = player_id)]

\* Option::None of an Option<Instant> and of an Option<JoinHandle>
NoInstant == -1
NoTask == 0

\* no Lobby: what `answer` holds for a lobby that was not stored
NoLobby == [host |-> NoPlayer, players |-> <<>>, max_players |-> 0]

\* `answer` before any call of a LobbyManager method
NoAnswer ==
    [op |-> "None", lobby |-> 0, player |-> NoPlayer, result |-> "None",
     before |-> NoLobby, list |-> {}]

\* LobbyManager::new: no lobby stored, no call of start_game runs
LobbyIdle ==
    /\ lobbies = EmptyMap
    /\ lobby_ids = 0
    /\ starts = <<>>
    /\ started = <<>>
    /\ answer = NoAnswer

\* GameManager::new: no game stored, no timer, no call runs
RegIdle ==
    /\ game_map = EmptyMap
    /\ handle_map = EmptyMap
    /\ task_list = <<>>
    /\ arm_map = EmptyMap
    /\ call_map = EmptyMap

\* `reply` before any call
NoReply ==
    [op |-> "None", ids |-> {}, returned |-> {}, now |-> 0,
     sessions |-> EmptyMap, channels |-> <<>>]

\* MessageRouter::new: both indices empty; no call made
RouterIdle ==
    /\ player_to_game = EmptyMap
    /\ player_to_lobby = EmptyMap
    /\ reply = NoReply
    /\ routed = 0

\* GameManager::new and ConnectionManager::new: nothing stored, nothing runs
ServerIdle ==
    /\ clock = 0
    /\ sessions = EmptyMap
    /\ channels = <<>>
    /\ transports = <<>>
    /\ games = {}
    /\ turn_deadline = NoInstant
    /\ timer_handles = NoTask
    /\ tasks = <<>>
    /\ arming = <<>>
    /\ calls = <<>>
    /\ applied = 0
    /\ LobbyIdle
    /\ RouterIdle
    /\ RegIdle

\* who may call: the players of the game and one identity outside it
Callers == 1..(Len(players) + 1)

\* `last` before any call; also the player and action logged for a rejected call
NoCall == [player |-> NoPlayer, action |-> NoAction, result |-> "None"]

Init ==
    \E nr \in 1..NumRanks, n \in MinPlayers..MaxPlayers,
       seed \in Seeds, trump \in SuitSet :
        LET s == NewGameState(nr, n, seed, trump)
        IN  /\ num_ranks = nr
            /\ players = s.players
            /\ phase = s.phase
            /\ round_number = s.round_number
            /\ cards_per_player = s.cards_per_player
            /\ hands = s.hands
            /\ current_trick = s.current_trick
            /\ completed_tricks = s.completed_tricks
            /\ round_scores = s.round_scores
            /\ total_scores = s.total_scores
            /\ trump_suit = s.trump_suit
            /\ player_bids = s.player_bids
            /\ tricks_won = s.tricks_won
            /\ current_player = s.current_player
            /\ first_bidder = s.first_bidder
            /\ bidding_state = s.bidding_state
            /\ last = NoCall
            /\ ServerIdle

\* calls are explored up to round MaxRound, and one round further in the
\* games of the 4-card deck, whose second round is short
RoundsExplored(nr) == MaxRound + (IF nr = 1 THEN 1 ELSE 0)

\* one call apply_action(player_id, action)
Apply(player_id, action, seed, trump) ==
    /\ round_number <= RoundsExplored(num_ranks)
    /\ \E r \in {ApplyAction(State, player_id, action, seed, trump)} :
       LET s == r.state
       IN  /\ num_ranks' = s.num_ranks
           /\ players' = s.players
           /\ phase' = s.phase
           /\ round_number' = s.round_number
           /\ cards_per_player' = s.cards_per_player
           /\ hands' = s.hands
           /\ current_trick' = s.current_trick
           /\ completed_tricks' = s.completed_tricks
           /\ round_scores' = s.round_scores
           /\ total_scores' = s.total_scores
           /\ trump_suit' = s.trump_suit
           /\ player_bids' = s.player_bids
           /\ tricks_won' = s.tricks_won
           /\ current_player' = s.current_player
           /\ first_bidder' = s.first_bidder
           /\ bidding_state' = s.bidding_state
           /\ last' = IF r.result = "Ok"
                      THEN [player |-> player_id, action |-> action,
                            result |-> r.result]
                      ELSE [NoCall EXCEPT !.result = r.result]
           /\ UNCHANGED serverVars

\* apply_action(player_id, PlayerAction::Bid(Bid { tricks }))
Bid(player_id, tricks) ==
    Apply(player_id, BidAction(tricks), 0, NoSuit)

\* apply_action(player_id, PlayerAction::PlayCard(card))
PlayCard(player_id, c) ==
    \E deals \in {ApplyAction(State, player_id, PlayCardAction(c), 0, NoSuit)
                      .state.round_number # round_number} :
        \E seed \in IF deals THEN Seeds ELSE {0},
           trump \in IF deals THEN SuitSet ELSE {NoSuit} :
            Apply(player_id, PlayCardAction(c), seed, trump)

Next ==
    \/ \E p \in Callers, tricks \in 0..MaxBid : Bid(p, tricks)
    \/ \E p \in Callers, c \in Cards : PlayCard(p, c)

Spec == Init /\ [][Next]_vars

(***************************************************************************)
(* Part 2: the connection manager (connection.rs) and the transports of    *)
(* handle_socket (server.rs).                                              *)
(*                                                                         *)
(* A PlayerSession is [ws_sender, is_active, disconnected_at]; connected_at*)
(* and last_activity are written and never read.  ws_sender is the id of   *)
(* an mpsc channel [senders, rx_open, received]: the number of live        *)
(* UnboundedSender clones, whether the receiver still exists, and the      *)
(* messages sent so far.                                                   *)
(***************************************************************************)
\* ConnectionManager::new: DEFAULT_RECONNECT_TIMEOUT_SECS
ReconnectTimeoutSecs == 60

\* protocol::ServerMessage; seq is the number of the applied action a game
\* message reports (0 for the others)
ServerMessage(tag, player_id, action, scores, seq) ==
    [tag |-> tag, player |-> player_id, action |-> action,
     scores |-> scores, seq |-> seq]

PlayerNotice(tag, player_id) ==
    ServerMessage(tag, player_id, NoAction, EmptyMap, 0)

\* mpsc::unbounded_channel
NewChannel == [senders |-> 1, rx_open |-> TRUE, received |-> <<>>]

\* UnboundedSender::clone and drop
CloneSender(chs, c) == [chs EXCEPT ![c].senders = @ + 1]
DropSender(chs, c) == [chs EXCEPT ![c].senders = @ - 1]

\* drop of the UnboundedReceiver
DropReceiver(chs, c) == [chs EXCEPT ![c].rx_open = FALSE]

\* UnboundedSender::send: an error, and nothing queued, once the receiver is gone
ChanSend(chs, c, msg) ==
    IF chs[c].rx_open THEN [chs EXCEPT ![c].received = Append(@, msg)]
    ELSE chs

\* a session bound to channel c
NewSession(c) ==
    [ws_sender |-> c, is_active |-> TRUE, disconnected_at |-> NoInstant]

\* the loop "collect all other active players" of mark_inactive and
\* reconnect_player
ActiveOthers(ss, player_id) ==
    {q \in (DOMAIN ss) \ {player_id} : ss[q].is_active}

\* ConnectionManager::register_player: [sessions, channels]
RegisterPlayer(ss, chs, player_id, c) ==
    [sessions |-> Insert(ss, player_id, NewSession(c)),
     channels |-> IF player_id \in DOMAIN ss
                  THEN DropSender(chs, ss[player_id].ws_sender)
                  ELSE chs]

\* ConnectionManager::remove_player: [sessions, channels]
RemovePlayer(ss, chs, player_id) ==
    [sessions |-> [q \in (DOMAIN ss) \ {player_id} |-> ss[q]],
     channels |-> IF player_id \in DOMAIN ss
                  THEN DropSender(chs, ss[player_id].ws_sender)
                  ELSE chs]

\* broadcast_to_players that sends to every session it finds
BroadcastToAllSessions(ss, chs, player_ids, msg) ==
    [c \in DOMAIN chs |->
        IF \E p \in player_ids : p \in DOMAIN ss /\ ss[p].ws_sender = c
        THEN ChanSend(chs, c, msg)[c]
        ELSE chs[c]]

\* ConnectionManager::send_to_player
SendToPlayer(ss, chs, player_id, msg) ==
    IF player_id \in DOMAIN ss /\ ss[player_id].is_active
    THEN ChanSend(chs, ss[player_id].ws_sender, msg)
    ELSE chs

\* ConnectionManager::broadcast_to_players
BroadcastToPlayers(ss, chs, player_ids, msg) ==
    [c \in DOMAIN chs |->
        IF \E p \in player_ids :
              p \in DOMAIN ss /\ ss[p].is_active /\ ss[p].ws_sender = c
        THEN ChanSend(chs, c, msg)[c]
        ELSE chs[c]]

\* ConnectionManager::mark_inactive: [others, sessions]
MarkInactive(ss, now, player_id) ==
    IF player_id \in DOMAIN ss
    THEN LET marked == [ss EXCEPT ![player_id].is_active = FALSE,
                                  ![player_id].disconnected_at = now]
         IN  [others |-> ActiveOthers(marked, player_id), sessions |-> marked]
    ELSE [others |-> {}, sessions |-> ss]

\* UnboundedSender::drop for the senders of the channels cs
DropSenders(chs, cs) ==
    [c \in DOMAIN chs |->
        IF c \in cs THEN [chs[c] EXCEPT !.senders = @ - 1] ELSE chs[c]]

\* ConnectionManager::cleanup_expired_sessions that removes every inactive
\* session
CleanupInactiveSessions(ss, chs, now) ==
    LET expired == {p \in DOMAIN ss : ~ss[p].is_active}
    IN  [expired |-> expired,
         sessions |-> [q \in (DOMAIN ss) \ expired |-> ss[q]],
         channels |-> DropSenders(chs, {ss[p].ws_sender : p \in expired})]

\* ConnectionManager::cleanup_expired_sessions: [expired, sessions, channels]
CleanupExpiredSessions(ss, chs, now) ==
    LET expired == {p \in DOMAIN ss :
                       /\ ~ss[p].is_active
                       /\ ss[p].disconnected_at # NoInstant
                       /\ now - ss[p].disconnected_at > ReconnectTimeoutSecs}
    IN  [expired |-> expired,
         sessions |-> [q \in (DOMAIN ss) \ expired |-> ss[q]],
         channels |-> DropSenders(chs, {ss[p].ws_sender : p \in expired})]

\* ConnectionManager::get_active_players
GetActivePlayers(ss) == {p \in DOMAIN ss : ss[p].is_active}

\* ConnectionManager::reconnect_player with the timeout test left out
ReconnectPlayerAnyTime(ss, chs, now, player_id, c) ==
    IF player_id \in DOMAIN ss
    THEN LET bound == [ss EXCEPT ![player_id] = NewSession(c)]
         IN  [result |-> "Some",
              others |-> ActiveOthers(bound, player_id),
              sessions |-> bound,
              channels |-> DropSender(chs, ss[player_id].ws_sender)]
    ELSE [result |-> "None", others |-> {}, sessions |-> ss, channels |-> chs]

\* ConnectionManager::reconnect_player that keeps the session inactive
ReconnectPlayerStaysInactive(ss, chs, now, player_id, c) ==
    IF player_id \in DOMAIN ss
    THEN IF /\ ss[player_id].disconnected_at # NoInstant
            /\ now - ss[player_id].disconnected_at > ReconnectTimeoutSecs
         THEN [result |-> "None", others |-> {},
               sessions |-> ss, channels |-> chs]
         ELSE LET bound == [ss EXCEPT ![player_id].ws_sender = c]
              IN  [result |-> "Some",
                   others |-> ActiveOthers(bound, player_id),
                   sessions |-> bound,
                   channels |-> DropSender(chs, ss[player_id].ws_sender)]
    ELSE [result |-> "None", others |-> {}, sessions |-> ss, channels |-> chs]

\* ConnectionManager::reconnect_player(player_id, ws_sender), ws_sender being
\* a sender of channel c that the caller hands over:
\* [result, others, sessions, channels]
ReconnectPlayer(ss, chs, now, player_id, c) ==
    IF player_id \in DOMAIN ss
    THEN IF /\ ss[player_id].disconnected_at # NoInstant
            /\ now - ss[player_id].disconnected_at > ReconnectTimeoutSecs
         THEN [result |-> "None", others |-> {},
               sessions |-> ss, channels |-> chs]
         ELSE LET bound == [ss EXCEPT ![player_id] = NewSession(c)]
              IN  [result |-> "Some",
                   others |-> ActiveOthers(bound, player_id),
                   sessions |-> bound,
                   channels |-> DropSender(chs, ss[player_id].ws_sender)]
    ELSE [result |-> "None", others |-> {}, sessions |-> ss, channels |-> chs]

\* GameManager::get_game_state: [result, view]
GetGameState(gs, s, game_id, player_id) ==
    IF game_id \notin gs
    THEN [result |-> "GameNotFound", view |-> <<>>]
    ELSE IF player_id \notin SeqToSet(s.players)
    THEN [result |-> "PlayerNotInGame", view |-> <<>>]
    ELSE [result |-> "Ok", view |-> <<GetPlayerView(s, player_id)>>]

\* the one game id of the model
TheGame == 1

connVars == <<sessions, channels, transports>>
mgrVars == <<games, turn_deadline, timer_handles, tasks, arming, calls, applied>>

\* The clock moves on by TickSecs.  It is read only to compare it with a
\* turn deadline or with the end of a reconnect timeout, and moves while one
\* of these lies ahead.
Tick ==
    /\ clock + TickSecs <= MaxClock
    /\ \/ turn_deadline > clock
       \/ \E p \in DOMAIN sessions :
             /\ sessions[p].disconnected_at # NoInstant
             /\ clock - sessions[p].disconnected_at <= ReconnectTimeoutSecs
    /\ clock' = clock + TickSecs
    /\ UNCHANGED <<gameVars, last, connVars, mgrVars,
                   lobbyVars, regVars, routerVars>>

\* a call of handle_socket that has returned: its locals are gone
Returned(tr) ==
    [player |-> tr.player, pc |-> "closed", socket_open |-> FALSE,
     holds_tx |-> FALSE, others |-> {}, forwarded |-> 0]

\* handle_socket is called for the authenticated user player_id and makes
\* its channel (tx, rx); the transport and its channel get the same number
Connect(player_id) ==
    /\ Len(transports) < MaxTransports
    /\ transports' = Append(transports,
                            [player |-> player_id, pc |-> "connecting",
                             socket_open |-> TRUE, holds_tx |-> TRUE,
                             others |-> {}, forwarded |-> 0])
    /\ channels' = Append(channels, NewChannel)
    /\ UNCHANGED <<clock, sessions, gameVars, last, mgrVars,
                   lobbyVars, regVars, routerVars>>

\* the client side of transport t goes away; what the channel held until
\* then has been written to the socket by a running send_task
SocketClose(t) ==
    /\ transports[t].socket_open
    /\ transports[t].pc # "closed"
    /\ transports' = [transports EXCEPT
                         ![t].socket_open = FALSE,
                         ![t].forwarded = IF transports[t].pc = "running"
                                          THEN Len(channels[t].received)
                                          ELSE 0]
    /\ UNCHANGED <<clock, sessions, channels, gameVars, last, mgrVars,
                   lobbyVars, regVars, routerVars>>

\* handle_socket: connection_manager.reconnect_player(player_id, tx.clone())
TransportReconnect(t) ==
    /\ transports[t].pc = "connecting"
    /\ \E r \in {ReconnectPlayer(sessions, channels, clock,
                                 transports[t].player, t)} :
          /\ sessions' = r.sessions
          /\ channels' = IF r.result = "Some" THEN CloneSender(r.channels, t)
                         ELSE r.channels
          /\ transports' = [transports EXCEPT
                               ![t].pc = IF r.result = "Some"
                                         THEN "reconnected" ELSE "new_session",
                               ![t].others = r.others]
    /\ UNCHANGED <<clock, gameVars, last, mgrVars,
                   lobbyVars, regVars, routerVars>>

\* handle_socket, reconnection branch: Connected goes to the socket (return
\* if that fails), PlayerReconnected to the other players, the tasks start
TransportWelcome(t) ==
    /\ transports[t].pc = "reconnected"
    /\ IF transports[t].socket_open
       THEN /\ channels' = BroadcastToPlayers(
                               sessions, channels, transports[t].others,
                               PlayerNotice("PlayerReconnected",
                                            transports[t].player))
            /\ transports' = [transports EXCEPT ![t].pc = "running",
                                                ![t].others = {}]
       ELSE /\ channels' = DropReceiver(DropSender(channels, t), t)
            /\ transports' = [transports EXCEPT ![t] = Returned(@)]
    /\ UNCHANGED <<clock, sessions, gameVars, last, mgrVars,
                   lobbyVars, regVars, routerVars>>

\* handle_socket, new-session branch: register_player(player_id, tx)
TransportRegister(t) ==
    /\ transports[t].pc = "new_session"
    /\ \E r \in {RegisterPlayer(sessions, channels, transports[t].player, t)} :
          /\ sessions' = r.sessions
          /\ channels' = r.channels
    /\ transports' = [transports EXCEPT ![t].pc = "registered",
                                        ![t].holds_tx = FALSE]
    /\ UNCHANGED <<clock, gameVars, last, mgrVars,
                   lobbyVars, regVars, routerVars>>

\* handle_socket, new-session branch: Connected goes to the socket; if that
\* fails remove_player(player_id) and return; else the tasks start
TransportGreet(t) ==
    /\ transports[t].pc = "registered"
    /\ IF transports[t].socket_open
       THEN /\ transports' = [transports EXCEPT ![t].pc = "running"]
            /\ UNCHANGED <<sessions, channels>>
       ELSE \E r \in {RemovePlayer(sessions, channels, transports[t].player)} :
               /\ sessions' = r.sessions
               /\ channels' = DropReceiver(r.channels, t)
               /\ transports' = [transports EXCEPT ![t] = Returned(@)]
    /\ UNCHANGED <<clock, gameVars, last, mgrVars,
                   lobbyVars, regVars, routerVars>>

\* recv_task ends on the closed socket: send_task.abort() (the receiver is
\* dropped with it) and mark_inactive(player_id)
TransportLeave(t) ==
    /\ transports[t].pc = "running"
    /\ ~transports[t].socket_open
    /\ \E r \in {MarkInactive(sessions, clock, transports[t].player)} :
          /\ sessions' = r.sessions
          /\ transports' = [transports EXCEPT ![t].pc = "marked",
                                              ![t].others = r.others]
    /\ channels' = DropReceiver(channels, t)
    /\ UNCHANGED <<clock, gameVars, last, mgrVars,
                   lobbyVars, regVars, routerVars>>

\* handle_socket after mark_inactive: PlayerLeft to the other players, then
\* the function returns and drops its tx when it still holds it
TransportFarewell(t) ==
    /\ transports[t].pc = "marked"
    /\ channels' =
          LET told == BroadcastToPlayers(
                          sessions, channels, transports[t].others,
                          PlayerNotice("PlayerLeft", transports[t].player))
          IN  IF transports[t].holds_tx THEN DropSender(told, t) ELSE told
    /\ transports' = [transports EXCEPT ![t] = Returned(@)]
    /\ UNCHANGED <<clock, sessions, gameVars, last, mgrVars,
                   lobbyVars, regVars, routerVars>>

\* the end of handle_socket through the send_task branch of select!:
\* recv_task.abort(), nobody is marked inactive
SendTaskDone(t) ==
    /\ channels' =
          LET dropped == DropReceiver(channels, t)
          IN  IF transports[t].holds_tx THEN DropSender(dropped, t)
              ELSE dropped
    /\ transports' = [transports EXCEPT ![t] = Returned(@)]
    /\ UNCHANGED <<clock, sessions, gameVars, last, mgrVars,
                   lobbyVars, regVars, routerVars>>

\* send_task: rx.recv() returns None, every sender of the channel is dropped
SendTaskEnds(t) ==
    /\ transports[t].pc = "running"
    /\ channels[t].senders = 0
    /\ SendTaskDone(t)

\* send_task: ws_sender.send(msg) fails on the closed socket
SendTaskFails(t) ==
    /\ transports[t].pc = "running"
    /\ ~transports[t].socket_open
    /\ Len(channels[t].received) > transports[t].forwarded
    /\ SendTaskDone(t)

\* the client of transport t sends Ping: handle_ping answers with
\* send_to_player(player_id, Pong)
Ping(t) ==
    /\ transports[t].pc = "running"
    /\ transports[t].socket_open
    /\ \A c \in DOMAIN channels : Len(channels[c].received) < MaxQueue
    /\ channels' = SendToPlayer(sessions, channels, transports[t].player,
                                PlayerNotice("Pong", transports[t].player))
    /\ UNCHANGED <<clock, sessions, transports, gameVars, last, mgrVars,
                   lobbyVars, regVars, routerVars>>

\* a server with one stored game and nobody connected yet
ConnInit ==
    /\ clock = 0
    /\ sessions = EmptyMap
    /\ channels = <<>>
    /\ transports = <<>>
    /\ games = {TheGame}
    /\ turn_deadline = NoInstant
    /\ timer_handles = NoTask
    /\ tasks = <<>>
    /\ arming = <<>>
    /\ calls = <<>>
    /\ applied = 0
    /\ LobbyIdle
    /\ RouterIdle
    /\ RegIdle
    /\ last = NoCall
    /\ GameIs(NewGameState(1, MinPlayers, 0, Suits[1]))

ConnNext ==
    \/ Tick
    \/ \E p \in SeqToSet(players) : Connect(p)
    \/ \E t \in DOMAIN transports : SocketClose(t)
    \/ \E t \in DOMAIN transports : TransportReconnect(t)
    \/ \E t \in DOMAIN transports : TransportWelcome(t)
    \/ \E t \in DOMAIN transports : TransportRegister(t)
    \/ \E t \in DOMAIN transports : TransportGreet(t)
    \/ \E t \in DOMAIN transports : TransportLeave(t)
    \/ \E t \in DOMAIN transports : TransportFarewell(t)
    \/ \E t \in DOMAIN transports : SendTaskEnds(t)
    \/ \E t \in DOMAIN transports : SendTaskFails(t)
    \/ \E t \in DOMAIN transports : Ping(t)

ConnSpec == ConnInit /\ [][ConnNext]_vars

(***************************************************************************)
(* Part 3: the game manager (game.rs) with one stored game.                *)
(*                                                                         *)
(* The callers of the manager's methods run concurrently; a step is what a *)
(* call does between two awaits while it holds a lock.  calls[p] is the    *)
(* call of handle_player_action made for player p (a transport handles one *)
(* client message at a time): [called, removed, outbox], removed telling   *)
(* whether its cancel_turn_timer removed a handle and outbox being the     *)
(* messages still to broadcast.  tasks[t] is the task spawned by the t-th  *)
(* start_turn_timer: [st, player, deadline, action, aborted, armed, seq],  *)
(* armed being the value of `applied` when the task was spawned and seq    *)
(* the number of the action the task applied.                              *)
(* arming counts the calls of start_turn_timer that have cancelled the old *)
(* timer and holds the tasks whose handle is not stored yet.               *)
(***************************************************************************)
\* ServerConfig.turn_timeout_secs, the timeout_secs of start_turn_timer
TurnTimeoutSecs == 30

\* the variables of the GameState take the value s
GameBecomes(s) ==
    /\ num_ranks' = s.num_ranks
    /\ players' = s.players
    /\ phase' = s.phase
    /\ round_number' = s.round_number
    /\ cards_per_player' = s.cards_per_player
    /\ hands' = s.hands
    /\ current_trick' = s.current_trick
    /\ completed_tricks' = s.completed_tricks
    /\ round_scores' = s.round_scores
    /\ total_scores' = s.total_scores
    /\ trump_suit' = s.trump_suit
    /\ player_bids' = s.player_bids
    /\ tricks_won' = s.tricks_won
    /\ current_player' = s.current_player
    /\ first_bidder' = s.first_bidder
    /\ bidding_state' = s.bidding_state

\* GameState::is_turn_expired
IsTurnExpired(deadline, now) == deadline # NoInstant /\ now >= deadline

\* a task of start_turn_timer that has finished or was cancelled
TaskDone ==
    [st |-> "done", player |-> NoPlayer, deadline |-> NoInstant,
     action |-> NoAction, aborted |-> FALSE, armed |-> 0, seq |-> 0]

\* JoinHandle::abort: a task parked in sleep_until is cancelled; a task that
\* is past its sleep is cancelled at its next yield, and may not yield
Abort(tks, t, now) ==
    IF tks[t].st = "done" THEN tks
    ELSE IF tks[t].st = "sleeping" /\ now < tks[t].deadline
    THEN [tks EXCEPT ![t] = TaskDone]
    ELSE [tks EXCEPT ![t].aborted = TRUE]

\* GameManager::cancel_turn_timer: [timer_handles, tasks]
CancelTurnTimer(handle, tks, now) ==
    IF handle # NoTask
    THEN [timer_handles |-> NoTask, tasks |-> Abort(tks, handle, now)]
    ELSE [timer_handles |-> handle, tasks |-> tks]

\* the messages handle_player_action broadcasts after it applied `action` of
\* player_id to state s and got state after: PlayerAction, then
\* TrickComplete, then GameOver
ActionMessages(s, after, player_id, action, seq) ==
    LET trick_complete_before ==
            TrickIsComplete(s.current_trick, Len(s.players))
        trick_just_completed ==
            /\ ~trick_complete_before
            /\ \/ after.phase \in {"RoundComplete", "GameComplete"}
               \/ after.current_trick.cards = <<>>
        has_winner == trick_just_completed /\ after.completed_tricks # <<>>
    IN  <<ServerMessage("PlayerAction", player_id, action, EmptyMap, seq)>>
        \o (IF has_winner
            THEN <<ServerMessage(
                      "TrickComplete",
                      after.completed_tricks[Len(after.completed_tricks)].winner,
                      NoAction, EmptyMap, seq)>>
            ELSE <<>>)
        \o (IF after.phase = "GameComplete"
            THEN <<ServerMessage("GameOver", NoPlayer, NoAction,
                                 after.total_scores, seq)>>
            ELSE <<>>)

\* no call of handle_player_action for a player
NoHandling == [called |-> FALSE, removed |-> FALSE, outbox |-> <<>>]

\* GameManager::create_game(players) has returned for n registered players
\* and the deal of (seed, trump): the game is stored and GameStarting is on
\* every sink
Created(n, seed, trump) ==
        /\ GameIs(NewGameState(1, n, seed, trump))
        /\ last = NoCall
        /\ clock = 0
        /\ sessions = [p \in 1..n |-> NewSession(p)]
        /\ channels = [p \in 1..n |->
                          [NewChannel EXCEPT
                              !.received =
                                  <<PlayerNotice("GameStarting", NoPlayer)>>]]
        /\ transports = <<>>
        /\ games = {TheGame}
        /\ turn_deadline = NoInstant
        /\ timer_handles = NoTask
        /\ tasks = <<>>
        /\ arming = [cancelled |-> 0, spawned |-> {}]
        /\ calls = [p \in 1..n |-> NoHandling]
        /\ applied = 0
        /\ LobbyIdle
        /\ RouterIdle
        /\ RegIdle

\* the manager holds one game of 2..4 players, started from one deal
MgrInit == \E n \in MinPlayers..MaxPlayers : Created(n, 0, Suits[1])

\* GameManager::end_game
EndGame ==
    /\ TheGame \in games
    /\ games' = games \ {TheGame}
    /\ UNCHANGED <<gameVars, last, clock, connVars, turn_deadline,
                   timer_handles, tasks, arming, calls, applied,
                   lobbyVars, regVars, routerVars>>

\* handle_player_action, first await: cancel_turn_timer(game_id)
HandleCancel(player_id) ==
    /\ round_number <= MaxRound
    /\ calls[player_id] = NoHandling
    /\ Cardinality({q \in DOMAIN calls : calls[q] # NoHandling}) < MaxCalls
    /\ \E r \in {CancelTurnTimer(timer_handles, tasks, clock)} :
          /\ timer_handles' = r.timer_handles
          /\ tasks' = r.tasks
    /\ calls' = [calls EXCEPT ![player_id].called = TRUE,
                              ![player_id].removed = (timer_handles # NoTask)]
    /\ UNCHANGED <<gameVars, last, clock, connVars, games, turn_deadline,
                   arming, applied,
                   lobbyVars, regVars, routerVars>>

\* handle_player_action under the write lock of games: the game lookup, the
\* membership test, validate_action and apply_action: [result, state]
HandlePlayerAction(gs, s, game_id, player_id, action, seed, trump) ==
    IF game_id \notin gs
    THEN [result |-> "GameNotFound", state |-> s]
    ELSE IF player_id \notin SeqToSet(s.players)
    THEN [result |-> "PlayerNotInGame", state |-> s]
    ELSE ApplyAction(s, player_id, action, seed, trump)

\* handle_player_action, second await: the write lock of games is taken,
\* the action applied and what is to be broadcast collected
HandleApply(player_id, action, seed, trump) ==
    /\ calls[player_id].called
    /\ \E r \in {HandlePlayerAction(games, State, TheGame, player_id, action,
                                    seed, trump)} :
          /\ GameBecomes(r.state)
          /\ IF r.result = "Ok"
             THEN /\ calls' = [calls EXCEPT
                                  ![player_id] =
                                      [called |-> FALSE,
                                       removed |-> FALSE,
                                       outbox |-> ActionMessages(
                                                      State, r.state, player_id,
                                                      action, applied + 1)]]
                  /\ applied' = applied + 1
             ELSE /\ calls' = [calls EXCEPT ![player_id] = NoHandling]
                  /\ applied' = applied
    /\ UNCHANGED <<last, clock, connVars, games, turn_deadline, timer_handles,
                   tasks, arming,
                   lobbyVars, regVars, routerVars>>

\* handle_player_action(game_id, player_id, Bid(Bid { tricks })), second await
HandleBid(player_id, tricks) ==
    HandleApply(player_id, BidAction(tricks), 0, NoSuit)

\* handle_player_action(game_id, player_id, PlayCard(card)), second await
HandlePlayCard(player_id, c) ==
    \E deals \in {ApplyAction(State, player_id, PlayCardAction(c), 0, NoSuit)
                      .state.round_number # round_number} :
        \E seed \in IF deals THEN Seeds ELSE {0},
           trump \in IF deals THEN SuitSet ELSE {NoSuit} :
            HandleApply(player_id, PlayCardAction(c), seed, trump)

\* broadcast_to_players(&game.players, msg): the loop over the players has
\* no await in it and is one step
BroadcastStep(msg) ==
    channels' = BroadcastToPlayers(sessions, channels, SeqToSet(players), msg)

\* handle_player_action after the lock is released: the broadcasts
HandleBroadcast(player_id) ==
    /\ calls[player_id].outbox # <<>>
    /\ BroadcastStep(Head(calls[player_id].outbox))
    /\ calls' = [calls EXCEPT ![player_id].outbox = Tail(@)]
    /\ UNCHANGED <<gameVars, last, clock, sessions, transports, games,
                   turn_deadline, timer_handles, tasks, arming, applied,
                   lobbyVars, regVars, routerVars>>

\* start_turn_timer, first await: cancel_turn_timer(game_id)
StartTimerCancel ==
    /\ round_number <= MaxRound
    /\ Len(tasks) + arming.cancelled < MaxTimers
    /\ \E r \in {CancelTurnTimer(timer_handles, tasks, clock)} :
          /\ timer_handles' = r.timer_handles
          /\ tasks' = r.tasks
    /\ arming' = [arming EXCEPT !.cancelled = @ + 1]
    /\ UNCHANGED <<gameVars, last, clock, connVars, games, turn_deadline,
                   calls, applied,
                   lobbyVars, regVars, routerVars>>

\* start_turn_timer under the write lock of games: set_turn_deadline, read
\* (current_player, deadline), and tokio::spawn of the task
StartTimerSpawn ==
    /\ arming.cancelled > 0
    /\ IF TheGame \in games
       THEN /\ turn_deadline' = clock + TurnTimeoutSecs
            /\ tasks' = Append(tasks,
                               [st |-> "sleeping", player |-> current_player,
                                deadline |-> clock + TurnTimeoutSecs,
                                action |-> NoAction, aborted |-> FALSE,
                                armed |-> applied, seq |-> 0])
            /\ arming' = [cancelled |-> arming.cancelled - 1,
                          spawned |-> arming.spawned \cup {Len(tasks) + 1}]
       ELSE /\ arming' = [arming EXCEPT !.cancelled = @ - 1]
            /\ UNCHANGED <<turn_deadline, tasks>>
    /\ UNCHANGED <<gameVars, last, clock, connVars, games, timer_handles,
                   calls, applied,
                   lobbyVars, regVars, routerVars>>

\* start_turn_timer, last await: handles.insert(game_id, handle); a handle
\* it replaces is dropped, which does not abort its task
StartTimerStore(t) ==
    /\ t \in arming.spawned
    /\ timer_handles' = t
    /\ arming' = [arming EXCEPT !.spawned = @ \ {t}]
    /\ UNCHANGED <<gameVars, last, clock, connVars, games, turn_deadline,
                   tasks, calls, applied,
                   lobbyVars, regVars, routerVars>>

\* GameManager::cancel_turn_timer called on its own
CancelTimer ==
    /\ timer_handles # NoTask
    /\ \E r \in {CancelTurnTimer(timer_handles, tasks, clock)} :
          /\ timer_handles' = r.timer_handles
          /\ tasks' = r.tasks
    /\ UNCHANGED <<gameVars, last, clock, connVars, games, turn_deadline,
                   arming, calls, applied,
                   lobbyVars, regVars, routerVars>>

\* the timer task after sleep_until(deadline), under the read lock of games:
\* same current player and turn expired, then get_auto_action
TimerCheck(t) ==
    /\ tasks[t].st = "sleeping"
    /\ clock >= tasks[t].deadline
    /\ tasks' =
          LET auto_action ==
                  IF /\ TheGame \in games
                     /\ current_player = tasks[t].player
                     /\ IsTurnExpired(turn_deadline, clock)
                  THEN GetAutoAction(State) ELSE NoAction
          IN  IF auto_action # NoAction
              THEN [tasks EXCEPT ![t].st = "checked", ![t].action = auto_action]
              ELSE [tasks EXCEPT ![t].st = "finishing"]
    /\ UNCHANGED <<gameVars, last, clock, connVars, games, turn_deadline,
                   timer_handles, arming, calls, applied,
                   lobbyVars, regVars, routerVars>>

\* the timer task under the write lock of games: apply_action of the auto
\* action for the player read at arm time; on an error the task returns
TimerApply(t, seed, trump) ==
    /\ round_number <= MaxRound
    /\ tasks[t].st = "checked"
    /\ IF TheGame \in games
       THEN \E r \in {ApplyAction(State, tasks[t].player, tasks[t].action,
                                  seed, trump)} :
               /\ GameBecomes(r.state)
               /\ IF r.result = "Ok"
                  THEN /\ tasks' = [tasks EXCEPT ![t].st = "applied",
                                                  ![t].seq = applied + 1]
                       /\ applied' = applied + 1
                  ELSE /\ tasks' = [tasks EXCEPT ![t] = TaskDone]
                       /\ applied' = applied
       ELSE /\ tasks' = [tasks EXCEPT ![t].st = "finishing"]
            /\ UNCHANGED <<gameVars, applied>>
    /\ UNCHANGED <<last, clock, connVars, games, turn_deadline, timer_handles,
                   arming, calls,
                   lobbyVars, regVars, routerVars>>

\* the timer task applies a bid, or a card and what thread_rng yields if the
\* card ends the round
TimerApplies(t) ==
    \E deals \in {tasks[t].st = "checked"
                  /\ ApplyAction(State, tasks[t].player, tasks[t].action,
                                 0, NoSuit).state.round_number # round_number} :
        \E seed \in IF deals THEN Seeds ELSE {0},
           trump \in IF deals THEN SuitSet ELSE {NoSuit} :
            TimerApply(t, seed, trump)

\* the messages the timer task broadcasts after it applied the auto action:
\* PlayerAction and nothing else
TimerMessages(player_id, action, seq) ==
    <<ServerMessage("PlayerAction", player_id, action, EmptyMap, seq)>>

\* the timer task broadcasts PlayerAction of the auto action
TimerBroadcast(t) ==
    /\ tasks[t].st = "applied"
    /\ BroadcastStep(TimerMessages(tasks[t].player, tasks[t].action,
                                   tasks[t].seq)[1])
    /\ tasks' = [tasks EXCEPT ![t].st = "finishing"]
    /\ UNCHANGED <<gameVars, last, clock, sessions, transports, games,
                   turn_deadline, timer_handles, arming, calls, applied,
                   lobbyVars, regVars, routerVars>>

\* the timer task, last await: handles.remove(&game_id)
TimerFinish(t) ==
    /\ tasks[t].st = "finishing"
    /\ timer_handles' = NoTask
    /\ tasks' = [tasks EXCEPT ![t] = TaskDone]
    /\ UNCHANGED <<gameVars, last, clock, connVars, games, turn_deadline,
                   arming, calls, applied,
                   lobbyVars, regVars, routerVars>>

\* an aborted task yields at an await and is cancelled there
TimerCancelled(t) ==
    /\ tasks[t].st # "done"
    /\ tasks[t].aborted
    /\ tasks' = [tasks EXCEPT ![t] = TaskDone]
    /\ UNCHANGED <<gameVars, last, clock, connVars, games, turn_deadline,
                   timer_handles, arming, calls, applied,
                   lobbyVars, regVars, routerVars>>

\* The manager as the server wires it: the router calls
\* handle_player_action for PlaceBid and PlayCard; nothing calls
\* start_turn_timer, cancel_turn_timer or end_game.
MgrNext ==
    \/ \E p \in SeqToSet(players) : HandleCancel(p)
    \/ \E p \in SeqToSet(players), tricks \in 0..MaxBid : HandleBid(p, tricks)
    \/ \E p \in SeqToSet(players), c \in Cards : HandlePlayCard(p, c)
    \/ \E p \in SeqToSet(players) : HandleBroadcast(p)

MgrSpec == MgrInit /\ [][MgrNext]_vars

\* a run of the timer specification makes at most MaxOps calls of
\* start_turn_timer and handle_player_action that arm a timer or apply an
\* action
OpsLeft ==
    Len(tasks) + arming.cancelled + applied
        + Cardinality({q \in DOMAIN calls : calls[q].called}) < MaxOps

\* The public methods of the manager under callers that may call any of
\* them at any time, and the timer tasks they spawn.
TimerNext ==
    \/ Tick
    \/ EndGame
    \/ \E p \in SeqToSet(players) : OpsLeft /\ HandleCancel(p)
    \/ \E p \in SeqToSet(players), tricks \in 0..MaxBid : HandleBid(p, tricks)
    \/ \E p \in SeqToSet(players), c \in Cards : HandlePlayCard(p, c)
    \/ \E p \in SeqToSet(players) : HandleBroadcast(p)
    \/ OpsLeft /\ StartTimerCancel
    \/ StartTimerSpawn
    \/ \E t \in DOMAIN tasks : StartTimerStore(t)
    \/ CancelTimer
    \/ \E t \in DOMAIN tasks : TimerCheck(t)
    \/ \E t \in DOMAIN tasks : TimerApplies(t)
    \/ \E t \in DOMAIN tasks : TimerBroadcast(t)
    \/ \E t \in DOMAIN tasks : TimerFinish(t)
    \/ \E t \in DOMAIN tasks : TimerCancelled(t)

TimerSpec == MgrInit /\ [][TimerNext]_vars

(***************************************************************************)
(* Part 4: the lobby manager (lobby.rs).                                   *)
(*                                                                         *)
(* A Lobby is [host, players, max_players], players in join order.  The    *)
(* lobby ids are the numbers 1, 2, .. in the order Uuid::new_v4 yields     *)
(* them.  create_lobby, join_lobby, leave_lobby and list_lobbies hold the  *)
(* lock of lobbies from their first to their last access and are one step *)
(* each; start_game reads under the read lock, releases it, creates the    *)
(* game and takes the write lock to remove the lobby: three steps.         *)
(* starts[c] is the call [lobby, caller, players, st, game], players being *)
(* the member list it read.  The rows written to the database are not     *)
(* part of the state.                                                      *)
(***************************************************************************)
Users == 1..MaxUsers

LobbyIds == 1..MaxLobbies

\* Lobby::is_full
IsFull(lobby) == Len(lobby.players) >= lobby.max_players

\* Lobby::is_host
IsHost(lobby, player_id) == lobby.host = player_id

\* the map ls without the key lobby_id: lobbies.remove(&lobby_id)
RemoveLobby(ls, lobby_id) == [l \in DOMAIN ls \ {lobby_id} |-> ls[l]]

\* the lobby ls holds for lobby_id, NoLobby if it holds none
LobbyOf(ls, lobby_id) == IF lobby_id \in DOMAIN ls THEN ls[lobby_id] ELSE NoLobby

\* LobbyManager::create_lobby(host, settings) with the id new_v4 yielded and
\* settings.player_count: the map of lobbies after the call
CreateLobby(ls, lobby_id, host, player_count) ==
    [l \in DOMAIN ls \cup {lobby_id} |->
        IF l = lobby_id
        THEN [host |-> host, players |-> <<host>>, max_players |-> player_count]
        ELSE ls[l]]

\* LobbyManager::join_lobby(lobby_id, player_id): [result, lobbies]
JoinLobby(ls, lobby_id, player_id) ==
    IF lobby_id \notin DOMAIN ls
    THEN [result |-> "LobbyNotFound", lobbies |-> ls]
    ELSE IF IsFull(ls[lobby_id])
    THEN [result |-> "LobbyFull", lobbies |-> ls]
    ELSE IF player_id \notin SeqToSet(ls[lobby_id].players)
    THEN [result |-> "Ok",
          lobbies |-> [ls EXCEPT ![lobby_id].players = Append(@, player_id)]]
    ELSE [result |-> "Ok", lobbies |-> ls]

\* leave_lobby handing the lobby to the member who joined last
LeaveLobbyToLast(ls, lobby_id, player_id) ==
    IF lobby_id \notin DOMAIN ls
    THEN [result |-> "LobbyNotFound", lobbies |-> ls]
    ELSE LET retained == SelectSeq(ls[lobby_id].players,
                                   LAMBDA q : q # player_id)
         IN  IF retained = <<>>
             THEN [result |-> "Ok", lobbies |-> RemoveLobby(ls, lobby_id)]
             ELSE IF ls[lobby_id].host = player_id
             THEN [result |-> "Ok",
                   lobbies |-> [ls EXCEPT ![lobby_id].players = retained,
                                          ![lobby_id].host =
                                              retained[Len(retained)]]]
             ELSE [result |-> "Ok",
                   lobbies |-> [ls EXCEPT ![lobby_id].players = retained]]

\* leave_lobby without the transfer of the host
LeaveLobbyKeepsHost(ls, lobby_id, player_id) ==
    IF lobby_id \notin DOMAIN ls
    THEN [result |-> "LobbyNotFound", lobbies |-> ls]
    ELSE LET retained == SelectSeq(ls[lobby_id].players,
                                   LAMBDA q : q # player_id)
         IN  IF retained = <<>>
             THEN [result |-> "Ok", lobbies |-> RemoveLobby(ls, lobby_id)]
             ELSE [result |-> "Ok",
                   lobbies |-> [ls EXCEPT ![lobby_id].players = retained]]

\* LobbyManager::leave_lobby(lobby_id, player_id): [result, lobbies]
LeaveLobby(ls, lobby_id, player_id) ==
    IF lobby_id \notin DOMAIN ls
    THEN [result |-> "LobbyNotFound", lobbies |-> ls]
    ELSE LET retained == SelectSeq(ls[lobby_id].players,
                                   LAMBDA q : q # player_id)
         IN  IF retained = <<>>
             THEN [result |-> "Ok", lobbies |-> RemoveLobby(ls, lobby_id)]
             ELSE IF ls[lobby_id].host = player_id
             THEN [result |-> "Ok",
                   lobbies |-> [ls EXCEPT ![lobby_id].players = retained,
                                          ![lobby_id].host = retained[1]]]
             ELSE [result |-> "Ok",
                   lobbies |-> [ls EXCEPT ![lobby_id].players = retained]]

\* list_lobbies without the filter: the LobbyInfo of every stored lobby
ListAllLobbies(ls) ==
    {[id |-> l, host |-> ls[l].host, max_players |-> ls[l].max_players] :
        l \in DOMAIN ls}

\* LobbyManager::list_lobbies: the LobbyInfo of the lobbies that are not
\* full, as [id, host, max_players] (a Vec in the order of HashMap::values)
ListLobbies(ls) ==
    {[id |-> l, host |-> ls[l].host, max_players |-> ls[l].max_players] :
        l \in {k \in DOMAIN ls : ~IsFull(ls[k])}}

\* the first block of start_game without the test of the caller
StartGameCheckAnyCaller(ls, lobby_id, caller) ==
    IF lobby_id \notin DOMAIN ls
    THEN [result |-> "LobbyNotFound", players |-> <<>>]
    ELSE IF Len(ls[lobby_id].players) < 2
    THEN [result |-> "NotEnoughPlayers", players |-> <<>>]
    ELSE [result |-> "Ok", players |-> ls[lobby_id].players]

\* LobbyManager::start_game(lobby_id, caller), the block under the read lock:
\* [result, players]
StartGameCheck(ls, lobby_id, caller) ==
    IF lobby_id \notin DOMAIN ls
    THEN [result |-> "LobbyNotFound", players |-> <<>>]
    ELSE IF ~IsHost(ls[lobby_id], caller)
    THEN [result |-> "NotHost", players |-> <<>>]
    ELSE IF Len(ls[lobby_id].players) < 2
    THEN [result |-> "NotEnoughPlayers", players |-> <<>>]
    ELSE [result |-> "Ok", players |-> ls[lobby_id].players]

\* GameManager::create_game_from_lobby(players, Some(lobby_id)): a game of
\* these players is stored; its id is its place in the list of games
CreateGameFromLobby(gs, player_ids) == Append(gs, player_ids)

\* what a call of a LobbyManager method on lobby_id returned
Answer(op, lobby_id, player_id, result, before) ==
    [op |-> op, lobby |-> lobby_id, player |-> player_id, result |-> result,
     before |-> before, list |-> {}]

\* create_lobby(host, settings)
LobbyCreate(host, player_count) ==
    /\ lobby_ids < MaxLobbies
    /\ lobby_ids' = lobby_ids + 1
    /\ lobbies' = CreateLobby(lobbies, lobby_ids + 1, host, player_count)
    /\ answer' = Answer("create", lobby_ids + 1, host, "Ok", NoLobby)
    /\ UNCHANGED <<gameVars, last, clock, connVars, mgrVars, starts, started, regVars,
                   routerVars>>

\* join_lobby(lobby_id, player_id)
LobbyJoin(lobby_id, player_id) ==
    /\ \E r \in {JoinLobby(lobbies, lobby_id, player_id)} :
          /\ lobbies' = r.lobbies
          /\ answer' = Answer("join", lobby_id, player_id, r.result,
                              LobbyOf(lobbies, lobby_id))
    /\ UNCHANGED <<gameVars, last, clock, connVars, mgrVars, lobby_ids,
                   starts, started, regVars, routerVars>>

\* leave_lobby(lobby_id, player_id)
LobbyLeave(lobby_id, player_id) ==
    /\ \E r \in {LeaveLobby(lobbies, lobby_id, player_id)} :
          /\ lobbies' = r.lobbies
          /\ answer' = Answer("leave", lobby_id, player_id, r.result,
                              LobbyOf(lobbies, lobby_id))
    /\ UNCHANGED <<gameVars, last, clock, connVars, mgrVars, lobby_ids,
                   starts, started, regVars, routerVars>>

\* list_lobbies()
LobbyList ==
    /\ answer' = [NoAnswer EXCEPT !.op = "list", !.result = "Ok",
                                  !.list = ListLobbies(lobbies)]
    /\ UNCHANGED <<gameVars, last, clock, connVars, mgrVars, lobbies,
                   lobby_ids, starts, started, regVars, routerVars>>

\* start_game(lobby_id, caller), first block: an error returns, otherwise
\* the call goes on with the member list it read
StartGameChecks(lobby_id, caller) ==
    /\ \E r \in {StartGameCheck(lobbies, lobby_id, caller)} :
          IF r.result = "Ok"
          THEN /\ Len(starts) < MaxStarts
               /\ starts' = Append(starts, [lobby |-> lobby_id,
                                            caller |-> caller,
                                            players |-> r.players,
                                            st |-> "checked", game |-> 0])
               /\ answer' = answer
          ELSE /\ answer' = Answer("start", lobby_id, caller, r.result,
                                   LobbyOf(lobbies, lobby_id))
               /\ starts' = starts
    /\ UNCHANGED <<gameVars, last, clock, connVars, mgrVars, lobbies,
                   lobby_ids, started, regVars, routerVars>>

\* start_game: create_game_from_lobby(players, Some(lobby_id)).await
StartGameCreate(c) ==
    /\ starts[c].st = "checked"
    /\ started' = CreateGameFromLobby(started, starts[c].players)
    /\ starts' = [starts EXCEPT ![c].st = "created",
                                ![c].game = Len(started) + 1]
    /\ UNCHANGED <<gameVars, last, clock, connVars, mgrVars, lobbies,
                   lobby_ids, answer, regVars, routerVars>>

\* start_game: lobbies.remove(&lobby_id) under the write lock, Ok(game_id)
StartGameRemove(c) ==
    /\ starts[c].st = "created"
    /\ lobbies' = RemoveLobby(lobbies, starts[c].lobby)
    /\ starts' = [starts EXCEPT ![c].st = "done"]
    /\ answer' = Answer("start", starts[c].lobby, starts[c].caller, "Ok",
                        LobbyOf(lobbies, starts[c].lobby))
    /\ UNCHANGED <<gameVars, last, clock, connVars, mgrVars, lobby_ids,
                   started, regVars, routerVars>>

\* a server with no lobby and no game yet
LobbyInit ==
    /\ ServerIdle
    /\ last = NoCall
    /\ GameIs(NewGameState(1, MinPlayers, 0, Suits[1]))

LobbyNext ==
    \/ \E host \in Users, player_count \in 0..MaxUsers :
          LobbyCreate(host, player_count)
    \/ \E l \in LobbyIds, p \in Users : LobbyJoin(l, p)
    \/ \E l \in LobbyIds, p \in Users : LobbyLeave(l, p)
    \/ LobbyList
    \/ \E l \in LobbyIds, p \in Users : StartGameChecks(l, p)
    \/ \E c \in DOMAIN starts : StartGameCreate(c)
    \/ \E c \in DOMAIN starts : StartGameRemove(c)

LobbySpec == LobbyInit /\ [][LobbyNext]_vars

(***************************************************************************)
(* Part 5: the game manager (game.rs) with several stored games.           *)
(*                                                                         *)
(* The games 1..MaxGames have MinPlayers players each and no player in     *)
(* common: the players of game g are GamePids(g), and a GameState knows    *)
(* them as its seats 1..MinPlayers.  game_map[g] is the Game [state,       *)
(* turn_deadline, applied], handle_map[g] the task whose handle            *)
(* timer_handles holds for g, task_list[t] the task [game, st, player,     *)
(* deadline, action, aborted, armed, seq], arm_map[g] the calls of         *)
(* start_turn_timer(g) as in Part 3, and call_map[q] the call of           *)
(* handle_player_action made for player q: [called, game, outbox].  The    *)
(* steps are those of Part 3, with the maps keyed by game_id as in the     *)
(* program.                                                                *)
(***************************************************************************)
GameIds == 1..MaxGames

Pids == 1..(MaxGames * MinPlayers)

\* Game.players of game g
GamePids(g) == {(g - 1) * MinPlayers + seat : seat \in 1..MinPlayers}

\* player q as the GameState of game g knows it; a player who is not in
\* game g is none of its seats
Seat(g, q) ==
    IF q \in GamePids(g) THEN q - (g - 1) * MinPlayers ELSE MinPlayers + 1

\* no call of handle_player_action for a player
NoCalling == [called |-> FALSE, game |-> 0, outbox |-> <<>>]

\* no call of start_turn_timer for a game
NotArming == [cancelled |-> 0, spawned |-> {}]

\* the map m without the key k
Without(m, k) == [x \in DOMAIN m \ {k} |-> m[x]]

\* the map m with v under the key k
With(m, k, v) == [x \in DOMAIN m \cup {k} |-> IF x = k THEN v ELSE m[x]]

\* cancel_turn_timer taking the first handle of the map, whatever its game
RegCancelFirstTimer(hs, tks, game_id, now) ==
    IF DOMAIN hs # {}
    THEN LET first == CHOOSE g \in DOMAIN hs : \A x \in DOMAIN hs : g <= x
         IN  [handles |-> Without(hs, first),
              tasks |-> Abort(tks, hs[first], now)]
    ELSE [handles |-> hs, tasks |-> tks]

\* GameManager::cancel_turn_timer(game_id): [handles, tasks]
RegCancelTurnTimer(hs, tks, game_id, now) ==
    IF game_id \in DOMAIN hs
    THEN [handles |-> Without(hs, game_id),
          tasks |-> Abort(tks, hs[game_id], now)]
    ELSE [handles |-> hs, tasks |-> tks]

\* GameManager::create_game has returned for each of the games
RegCreated ==
    /\ game_map = [g \in GameIds |->
                      [state |-> NewGameState(1, MinPlayers, 0, Suits[1]),
                       turn_deadline |-> NoInstant, applied |-> 0]]
    /\ handle_map = EmptyMap
    /\ task_list = <<>>
    /\ arm_map = [g \in GameIds |-> NotArming]
    /\ call_map = [q \in Pids |-> NoCalling]
    /\ clock = 0
    /\ sessions = [q \in Pids |-> NewSession(q)]
    /\ channels = [q \in Pids |->
                      [NewChannel EXCEPT
                          !.received =
                              <<PlayerNotice("GameStarting", NoPlayer)>>]]
    /\ transports = <<>>

\* the games are stored; the variables of Parts 1, 3 and 4 are not used
RegInit ==
    /\ RegCreated
    /\ GameIs(NewGameState(1, MinPlayers, 0, Suits[1]))
    /\ last = NoCall
    /\ games = {}
    /\ turn_deadline = NoInstant
    /\ timer_handles = NoTask
    /\ tasks = <<>>
    /\ arming = <<>>
    /\ calls = <<>>
    /\ applied = 0
    /\ LobbyIdle
    /\ RouterIdle

\* a run makes at most MaxRegOps calls of handle_player_action that are not
\* rejected and of start_turn_timer, over all games
RegOpsLeft ==
    Len(task_list)
        + SumValues([g \in GameIds |-> arm_map[g].cancelled])
        + SumValues([g \in DOMAIN game_map |-> game_map[g].applied])
        + Cardinality({q \in Pids : call_map[q].called}) < MaxRegOps

\* GameManager::end_game(g)
RegEndGame(g) ==
    /\ g \in DOMAIN game_map
    /\ game_map' = Without(game_map, g)
    /\ UNCHANGED <<gameVars, last, clock, connVars, mgrVars, lobbyVars,
                   handle_map, task_list, arm_map, call_map, routerVars>>

\* handle_player_action(g, q, action), first await: cancel_turn_timer(g)
RegHandleCancel(q, g) ==
    /\ RegOpsLeft
    /\ call_map[q] = NoCalling
    /\ Cardinality({x \in Pids : call_map[x] # NoCalling}) < MaxCalls
    /\ \E r \in {RegCancelTurnTimer(handle_map, task_list, g, clock)} :
          /\ handle_map' = r.handles
          /\ task_list' = r.tasks
    /\ call_map' = [call_map EXCEPT ![q] = [NoCalling EXCEPT !.called = TRUE,
                                                             !.game = g]]
    /\ UNCHANGED <<gameVars, last, clock, connVars, mgrVars, lobbyVars,
                   game_map, arm_map, routerVars>>

\* handle_player_action, second await: under the write lock of games the
\* game is looked up, the action validated and applied and what is to be
\* broadcast collected
RegHandleApply(q, action, seed, trump) ==
    /\ call_map[q].called
    /\ \E g \in {call_map[q].game} :
          IF g \notin DOMAIN game_map
          THEN /\ call_map' = [call_map EXCEPT ![q] = NoCalling]
               /\ game_map' = game_map
          ELSE \E r \in {HandlePlayerAction(DOMAIN game_map, game_map[g].state,
                                            g, Seat(g, q), action, seed,
                                            trump)} :
                  IF r.result = "Ok"
                  THEN /\ game_map' = [game_map EXCEPT
                                          ![g].state = r.state,
                                          ![g].applied = @ + 1]
                       /\ call_map' = [call_map EXCEPT
                                          ![q].called = FALSE,
                                          ![q].outbox =
                                              ActionMessages(
                                                  game_map[g].state, r.state,
                                                  Seat(g, q), action,
                                                  game_map[g].applied + 1)]
                  ELSE /\ call_map' = [call_map EXCEPT ![q] = NoCalling]
                       /\ game_map' = game_map
    /\ UNCHANGED <<gameVars, last, clock, connVars, mgrVars, lobbyVars,
                   handle_map, task_list, arm_map, routerVars>>

\* the state of the game the call of q is for, the state of game 1 if that
\* game is not stored
CalledState(q) ==
    IF call_map[q].game \in DOMAIN game_map
    THEN game_map[call_map[q].game].state
    ELSE NewGameState(1, MinPlayers, 0, Suits[1])

\* handle_player_action(g, q, Bid(Bid { tricks })), second await
RegHandleBid(q, tricks) == RegHandleApply(q, BidAction(tricks), 0, NoSuit)

\* handle_player_action(g, q, PlayCard(card)), second await
RegHandlePlayCard(q, c) ==
    \E deals \in {/\ call_map[q].called
                  /\ ApplyAction(CalledState(q), Seat(call_map[q].game, q),
                                 PlayCardAction(c), 0, NoSuit)
                         .state.round_number # CalledState(q).round_number} :
        \E seed \in IF deals THEN Seeds ELSE {0},
           trump \in IF deals THEN SuitSet ELSE {NoSuit} :
            RegHandleApply(q, PlayCardAction(c), seed, trump)

\* handle_player_action after the lock is released: broadcast_to_players of
\* the next message to the players of the game
RegHandleBroadcast(q) ==
    /\ call_map[q].outbox # <<>>
    /\ channels' = BroadcastToPlayers(sessions, channels,
                                      GamePids(call_map[q].game),
                                      Head(call_map[q].outbox))
    /\ call_map' = [call_map EXCEPT
                       ![q] = IF Tail(@.outbox) = <<>> THEN NoCalling
                              ELSE [@ EXCEPT !.outbox = Tail(@)]]
    /\ UNCHANGED <<gameVars, last, clock, sessions, transports, mgrVars,
                   lobbyVars, game_map, handle_map, task_list, arm_map,
                   routerVars>>

\* start_turn_timer(g, timeout_secs), first await: cancel_turn_timer(g)
RegStartTimerCancel(g) ==
    /\ RegOpsLeft
    /\ Len(task_list) + SumValues([x \in GameIds |-> arm_map[x].cancelled])
           < MaxTimers
    /\ \E r \in {RegCancelTurnTimer(handle_map, task_list, g, clock)} :
          /\ handle_map' = r.handles
          /\ task_list' = r.tasks
    /\ arm_map' = [arm_map EXCEPT ![g].cancelled = @ + 1]
    /\ UNCHANGED <<gameVars, last, clock, connVars, mgrVars, lobbyVars,
                   game_map, call_map, routerVars>>

\* start_turn_timer under the write lock of games: set_turn_deadline, read
\* (current_player, deadline), and tokio::spawn of the task
RegStartTimerSpawn(g) ==
    /\ arm_map[g].cancelled > 0
    /\ IF g \in DOMAIN game_map
       THEN /\ game_map' = [game_map EXCEPT
                               ![g].turn_deadline = clock + TurnTimeoutSecs]
            /\ task_list' =
                  Append(task_list,
                         [game |-> g, st |-> "sleeping",
                          player |-> game_map[g].state.current_player,
                          deadline |-> clock + TurnTimeoutSecs,
                          action |-> NoAction, aborted |-> FALSE,
                          armed |-> game_map[g].applied, seq |-> 0])
            /\ arm_map' = [arm_map EXCEPT
                              ![g].cancelled = @ - 1,
                              ![g].spawned = @ \cup {Len(task_list) + 1}]
       ELSE /\ arm_map' = [arm_map EXCEPT ![g].cancelled = @ - 1]
            /\ UNCHANGED <<game_map, task_list>>
    /\ UNCHANGED <<gameVars, last, clock, connVars, mgrVars, lobbyVars,
                   handle_map, call_map, routerVars>>

\* start_turn_timer, last await: handles.insert(game_id, handle)
RegStartTimerStore(g, t) ==
    /\ t \in arm_map[g].spawned
    /\ handle_map' = With(handle_map, g, t)
    /\ arm_map' = [arm_map EXCEPT ![g].spawned = @ \ {t}]
    /\ UNCHANGED <<gameVars, last, clock, connVars, mgrVars, lobbyVars,
                   game_map, task_list, call_map, routerVars>>

\* the timer task after sleep_until(deadline), under the read lock of games
RegTimerCheck(t) ==
    /\ task_list[t].st = "sleeping"
    /\ clock >= task_list[t].deadline
    /\ \E g \in {task_list[t].game} :
       \E auto_action \in
              {IF /\ g \in DOMAIN game_map
                  /\ game_map[g].state.current_player = task_list[t].player
                  /\ IsTurnExpired(game_map[g].turn_deadline, clock)
               THEN GetAutoAction(game_map[g].state) ELSE NoAction} :
          task_list' =
              IF auto_action # NoAction
              THEN [task_list EXCEPT ![t].st = "checked",
                                     ![t].action = auto_action]
              ELSE [task_list EXCEPT ![t].st = "finishing"]
    /\ UNCHANGED <<gameVars, last, clock, connVars, mgrVars, lobbyVars,
                   game_map, handle_map, arm_map, call_map, routerVars>>

\* the timer task under the write lock of games: apply_action of the auto
\* action; on an error the task returns
RegTimerApply(t, seed, trump) ==
    /\ task_list[t].st = "checked"
    /\ \E g \in {task_list[t].game} :
          IF g \in DOMAIN game_map
          THEN \E r \in {ApplyAction(game_map[g].state, task_list[t].player,
                                     task_list[t].action, seed, trump)} :
                  IF r.result = "Ok"
                  THEN /\ game_map' = [game_map EXCEPT
                                          ![g].state = r.state,
                                          ![g].applied = @ + 1]
                       /\ task_list' = [task_list EXCEPT
                                           ![t].st = "applied",
                                           ![t].seq = game_map[g].applied + 1]
                  ELSE /\ task_list' = [task_list EXCEPT ![t] = TaskDone]
                       /\ game_map' = game_map
          ELSE /\ task_list' = [task_list EXCEPT ![t].st = "finishing"]
               /\ game_map' = game_map
    /\ UNCHANGED <<gameVars, last, clock, connVars, mgrVars, lobbyVars,
                   handle_map, arm_map, call_map, routerVars>>

\* the timer task applies a bid, or a card and what thread_rng yields if the
\* card ends the round
RegTimerApplies(t) ==
    \E deals \in {/\ task_list[t].st = "checked"
                  /\ task_list[t].game \in DOMAIN game_map
                  /\ ApplyAction(game_map[task_list[t].game].state,
                                 task_list[t].player, task_list[t].action,
                                 0, NoSuit).state.round_number
                         # game_map[task_list[t].game].state.round_number} :
        \E seed \in IF deals THEN Seeds ELSE {0},
           trump \in IF deals THEN SuitSet ELSE {NoSuit} :
            RegTimerApply(t, seed, trump)

\* the timer task broadcasts PlayerAction to the players of its game
RegTimerBroadcast(t) ==
    /\ task_list[t].st = "applied"
    /\ channels' = BroadcastToPlayers(
                       sessions, channels, GamePids(task_list[t].game),
                       TimerMessages(task_list[t].player, task_list[t].action,
                                     task_list[t].seq)[1])
    /\ task_list' = [task_list EXCEPT ![t].st = "finishing"]
    /\ UNCHANGED <<gameVars, last, clock, sessions, transports, mgrVars,
                   lobbyVars, game_map, handle_map, arm_map, call_map,
                   routerVars>>

\* the timer task, last await: handles.remove(&game_id)
RegTimerFinish(t) ==
    /\ task_list[t].st = "finishing"
    /\ handle_map' = Without(handle_map, task_list[t].game)
    /\ task_list' = [task_list EXCEPT ![t] = TaskDone]
    /\ UNCHANGED <<gameVars, last, clock, connVars, mgrVars, lobbyVars,
                   game_map, arm_map, call_map, routerVars>>

\* an aborted task yields at an await and is cancelled there
RegTimerCancelled(t) ==
    /\ task_list[t].st # "done"
    /\ task_list[t].aborted
    /\ task_list' = [task_list EXCEPT ![t] = TaskDone]
    /\ UNCHANGED <<gameVars, last, clock, connVars, mgrVars, lobbyVars,
                   game_map, handle_map, arm_map, call_map, routerVars>>

\* time passes while a task sleeps
RegTick ==
    /\ clock + TickSecs <= MaxClock
    /\ \E t \in DOMAIN task_list :
          task_list[t].st = "sleeping" /\ task_list[t].deadline > clock
    /\ clock' = clock + TickSecs
    /\ UNCHANGED <<gameVars, last, connVars, mgrVars, lobbyVars, regVars,
                   routerVars>>

RegNext ==
    \/ RegTick
    \/ \E g \in GameIds : RegEndGame(g)
    \/ \E q \in Pids, g \in GameIds : RegHandleCancel(q, g)
    \/ \E q \in Pids, tricks \in 0..MaxBid : RegHandleBid(q, tricks)
    \/ \E q \in Pids, c \in Cards : RegHandlePlayCard(q, c)
    \/ \E q \in Pids : RegHandleBroadcast(q)
    \/ \E g \in GameIds : RegStartTimerCancel(g)
    \/ \E g \in GameIds : RegStartTimerSpawn(g)
    \/ \E g \in GameIds, t \in DOMAIN task_list : RegStartTimerStore(g, t)
    \/ \E t \in DOMAIN task_list : RegTimerCheck(t)
    \/ \E t \in DOMAIN task_list : RegTimerApplies(t)
    \/ \E t \in DOMAIN task_list : RegTimerBroadcast(t)
    \/ \E t \in DOMAIN task_list : RegTimerFinish(t)
    \/ \E t \in DOMAIN task_list : RegTimerCancelled(t)

RegSpec == RegInit /\ [][RegNext]_vars

(***************************************************************************)
(* Part 6: the methods of the connection manager (connection.rs), called   *)
(* in any order as the integration tests call them.                        *)
(*                                                                         *)
(* Every call of register_player and reconnect_player brings the sender of *)
(* a channel made for it.  `reply` keeps the arguments and the result of   *)
(* the latest call, and the registry and the channels it found.  The       *)
(* receivers of the channels stay alive, as they do in the tests.          *)
(***************************************************************************)
Reply(op, ids, returned) ==
    [op |-> op, ids |-> ids, returned |-> returned, now |-> clock,
     sessions |-> sessions, channels |-> channels]

\* what the calls of the connection manager's methods leave alone
sessVars == <<gameVars, last, transports, mgrVars, lobbyVars, regVars,
              player_to_game, player_to_lobby, routed>>

\* sends are explored while every channel holds fewer than MaxQueue messages
QueuesOpen == \A c \in DOMAIN channels : Len(channels[c].received) < MaxQueue

\* register_player(player_id, tx) with the sender of a new channel
CallRegisterPlayer(player_id) ==
    /\ Len(channels) < MaxTransports
    /\ \E r \in {RegisterPlayer(sessions, Append(channels, NewChannel),
                                player_id, Len(channels) + 1)} :
          /\ sessions' = r.sessions
          /\ channels' = r.channels
    /\ reply' = Reply("register_player", {player_id}, {})
    /\ UNCHANGED <<clock, sessVars>>

\* mark_inactive(player_id)
CallMarkInactive(player_id) ==
    /\ \E r \in {MarkInactive(sessions, clock, player_id)} :
          /\ sessions' = r.sessions
          /\ reply' = Reply("mark_inactive", {player_id}, r.others)
    /\ UNCHANGED <<clock, channels, sessVars>>

\* reconnect_player(player_id, tx) with the sender of a new channel, which
\* is dropped with the arguments when the call returns None
CallReconnectPlayer(player_id) ==
    /\ Len(channels) < MaxTransports
    /\ \E r \in {ReconnectPlayer(sessions, Append(channels, NewChannel),
                                 clock, player_id, Len(channels) + 1)} :
          /\ sessions' = r.sessions
          /\ channels' = IF r.result = "Some" THEN r.channels
                         ELSE DropSender(r.channels, Len(channels) + 1)
          /\ reply' = Reply(IF r.result = "Some" THEN "reconnect_player"
                            ELSE "reconnect_refused", {player_id}, r.others)
    /\ UNCHANGED <<clock, sessVars>>

\* cleanup_expired_sessions()
CallCleanupExpiredSessions ==
    /\ \E r \in {CleanupExpiredSessions(sessions, channels, clock)} :
          /\ sessions' = r.sessions
          /\ channels' = r.channels
          /\ reply' = Reply("cleanup_expired_sessions", {}, r.expired)
    /\ UNCHANGED <<clock, sessVars>>

\* send_to_player(player_id, Pong)
CallSendToPlayer(player_id) ==
    /\ QueuesOpen
    /\ channels' = SendToPlayer(sessions, channels, player_id,
                                PlayerNotice("Pong", player_id))
    /\ reply' = Reply("send_to_player", {player_id}, {})
    /\ UNCHANGED <<clock, sessions, sessVars>>

\* broadcast_to_players(player_ids, LobbyList)
CallBroadcastToPlayers(player_ids) ==
    /\ QueuesOpen
    /\ channels' = BroadcastToPlayers(sessions, channels, player_ids,
                                      PlayerNotice("LobbyList", NoPlayer))
    /\ reply' = Reply("broadcast_to_players", player_ids, {})
    /\ UNCHANGED <<clock, sessions, sessVars>>

\* the clock moves on by TickSecs, as far as MaxClock
SessTick ==
    /\ clock + TickSecs <= MaxClock
    /\ clock' = clock + TickSecs
    /\ UNCHANGED <<sessions, channels, reply, sessVars>>

\* ConnectionManager::new, beside an idle server
SessInit ==
    /\ ServerIdle
    /\ last = NoCall
    /\ GameIs(NewGameState(1, MinPlayers, 0, Suits[1]))

SessNext ==
    \/ SessTick
    \/ \E p \in Users : CallRegisterPlayer(p)
    \/ \E p \in Users : CallMarkInactive(p)
    \/ \E p \in Users : CallReconnectPlayer(p)
    \/ CallCleanupExpiredSessions
    \/ \E p \in Users : CallSendToPlayer(p)
    \/ \E ids \in SUBSET Users : CallBroadcastToPlayers(ids)

SessSpec == SessInit /\ [][SessNext]_vars

(***************************************************************************)
(* Part 7: the message router (router.rs) over the lobby manager.          *)
(*                                                                         *)
(* The clients 1..MaxUsers are connected, each with an active session on   *)
(* its own channel, and their messages are handled concurrently.           *)
(* handle_create_lobby, handle_join_lobby and handle_leave_lobby run here  *)
(* without another handler between their awaits; handle_start_game is      *)
(* three steps: the lookup with the snapshot of the members, the call of   *)
(* start_game, and the update of the indices.  `starts` holds the calls of *)
(* handle_start_game with the snapshot in `players`; a call that returned  *)
(* an error stays in it as "failed".                                       *)
(***************************************************************************)
\* route_message: the error of a handler goes to the sender alone
ErrorTo(chs, player_id) ==
    SendToPlayer(sessions, chs, player_id, PlayerNotice("Error", player_id))

\* the broadcast of LobbyList to get_active_players()
ListToAll(chs) ==
    BroadcastToPlayers(sessions, chs, GetActivePlayers(sessions),
                       PlayerNotice("LobbyList", NoPlayer))

\* the broadcast of LobbyUpdated to the members of a lobby
UpdateTo(chs, lobby) ==
    BroadcastToPlayers(sessions, chs, SeqToSet(lobby.players),
                       PlayerNotice("LobbyUpdated", lobby.host))

\* what the router's handlers leave alone
routeVars == <<gameVars, last, clock, sessions, transports, mgrVars,
               answer, regVars, reply>>

\* handle_create_lobby(player_id, settings)
RouteCreateLobby(player_id, player_count) ==
    /\ routed < MaxRouted
    /\ lobby_ids < MaxLobbies
    /\ routed' = routed + 1
    /\ lobby_ids' = lobby_ids + 1
    /\ lobbies' = CreateLobby(lobbies, lobby_ids + 1, player_id, player_count)
    /\ player_to_lobby' = Insert(player_to_lobby, player_id, lobby_ids + 1)
    /\ channels' =
          ListToAll(SendToPlayer(sessions, channels, player_id,
                                 PlayerNotice("LobbyCreated", player_id)))
    /\ UNCHANGED <<routeVars, starts, started, player_to_game>>

\* handle_join_lobby(player_id, lobby_id)
RouteJoinLobby(player_id, lobby_id) ==
    /\ routed < MaxRouted
    /\ routed' = routed + 1
    /\ \E r \in {JoinLobby(lobbies, lobby_id, player_id)} :
          /\ lobbies' = r.lobbies
          /\ IF r.result = "Ok"
             THEN /\ player_to_lobby' =
                         Insert(player_to_lobby, player_id, lobby_id)
                  /\ channels' =
                         ListToAll(
                             UpdateTo(
                                 SendToPlayer(
                                     sessions, channels, player_id,
                                     PlayerNotice("LobbyJoined", player_id)),
                                 r.lobbies[lobby_id]))
             ELSE /\ player_to_lobby' = player_to_lobby
                  /\ channels' = ErrorTo(channels, player_id)
    /\ UNCHANGED <<routeVars, lobby_ids, starts, started, player_to_game>>

\* handle_leave_lobby(player_id)
RouteLeaveLobby(player_id) ==
    /\ routed < MaxRouted
    /\ routed' = routed + 1
    /\ IF player_id \notin DOMAIN player_to_lobby
       THEN UNCHANGED <<lobbies, player_to_lobby, channels>>
       ELSE \E r \in {LeaveLobby(lobbies, player_to_lobby[player_id],
                                 player_id)} :
               /\ lobbies' = r.lobbies
               /\ IF r.result = "Ok"
                  THEN /\ player_to_lobby' = Without(player_to_lobby, player_id)
                       /\ channels' =
                             IF player_to_lobby[player_id] \in DOMAIN r.lobbies
                             THEN ListToAll(
                                      UpdateTo(
                                          channels,
                                          r.lobbies[player_to_lobby[player_id]]))
                             ELSE ListToAll(channels)
                  ELSE /\ player_to_lobby' = player_to_lobby
                       /\ channels' = ErrorTo(channels, player_id)
    /\ UNCHANGED <<routeVars, lobby_ids, starts, started, player_to_game>>

\* handle_start_game(player_id) as far as the snapshot of the members it
\* takes with get_lobby; without an index entry, or without the lobby, the
\* handler returns an error
RouteStartGame(player_id) ==
    /\ routed < MaxRouted
    /\ routed' = routed + 1
    /\ IF /\ player_id \in DOMAIN player_to_lobby
          /\ player_to_lobby[player_id] \in DOMAIN lobbies
       THEN /\ Len(SelectSeq(starts, LAMBDA c : c.st # "failed")) < MaxStarts
            /\ starts' =
                  Append(starts,
                         [lobby |-> player_to_lobby[player_id],
                          caller |-> player_id,
                          players |->
                              lobbies[player_to_lobby[player_id]].players,
                          st |-> "read", game |-> 0])
            /\ channels' = channels
       ELSE /\ starts' =
                  Append(starts,
                         [lobby |-> 0, caller |-> player_id, players |-> <<>>,
                          st |-> "failed", game |-> 0])
            /\ channels' = ErrorTo(channels, player_id)
    /\ UNCHANGED <<routeVars, lobbies, lobby_ids, started, player_to_game,
                   player_to_lobby>>

\* handle_start_game: lobby_manager.start_game(lobby_id, player_id)
RouteStartGameRuns(c) ==
    /\ starts[c].st = "read"
    /\ \E r \in {StartGameCheck(lobbies, starts[c].lobby, starts[c].caller)} :
          IF r.result = "Ok"
          THEN /\ started' = CreateGameFromLobby(started, r.players)
               /\ lobbies' = RemoveLobby(lobbies, starts[c].lobby)
               /\ starts' = [starts EXCEPT ![c].st = "started",
                                           ![c].game = Len(started) + 1]
               /\ channels' = channels
          ELSE /\ starts' = [starts EXCEPT ![c].st = "failed"]
               /\ channels' = ErrorTo(channels, starts[c].caller)
               /\ UNCHANGED <<lobbies, started>>
    /\ UNCHANGED <<routeVars, lobby_ids, player_to_game, player_to_lobby,
                   routed>>

\* handle_start_game: both indices are updated for the players of the
\* snapshot
RouteStartGameIndexes(c) ==
    /\ starts[c].st = "started"
    /\ player_to_lobby' =
          [q \in (DOMAIN player_to_lobby) \ SeqToSet(starts[c].players) |->
              player_to_lobby[q]]
    /\ player_to_game' =
          [q \in (DOMAIN player_to_game) \cup SeqToSet(starts[c].players) |->
              IF q \in SeqToSet(starts[c].players) THEN starts[c].game
              ELSE player_to_game[q]]
    /\ starts' = [starts EXCEPT ![c].st = "done"]
    /\ UNCHANGED <<routeVars, lobbies, lobby_ids, started, channels, routed>>

\* MessageRouter::new over idle managers, the clients connected
RouterInit ==
    /\ GameIs(NewGameState(1, MinPlayers, 0, Suits[1]))
    /\ last = NoCall
    /\ clock = 0
    /\ sessions = [p \in Users |-> NewSession(p)]
    /\ channels = [p \in Users |-> NewChannel]
    /\ transports = <<>>
    /\ games = {}
    /\ turn_deadline = NoInstant
    /\ timer_handles = NoTask
    /\ tasks = <<>>
    /\ arming = <<>>
    /\ calls = <<>>
    /\ applied = 0
    /\ LobbyIdle
    /\ RegIdle
    /\ RouterIdle

RouterNext ==
    \/ \E p \in Users, player_count \in 0..MaxUsers :
          RouteCreateLobby(p, player_count)
    \/ \E p \in Users, l \in LobbyIds : RouteJoinLobby(p, l)
    \/ \E p \in Users : RouteLeaveLobby(p)
    \/ \E p \in Users : RouteStartGame(p)
    \/ \E c \in DOMAIN starts : RouteStartGameRuns(c)
    \/ \E c \in DOMAIN starts : RouteStartGameIndexes(c)

RouterSpec == RouterInit /\ [][RouterNext]_vars

(***************************************************************************)
(* Properties of GameState                                                 *)
(***************************************************************************)
PlayerSet == SeqToSet(players)

\* number of cards in all hands
RECURSIVE HandTotal(_)
HandTotal(S) ==
    IF S = {} THEN 0
    ELSE LET p == CHOOSE q \in S : TRUE
         IN  Len(hands[p]) + HandTotal(S \ {p})

\* a round has just been dealt: nobody has bid yet
RoundJustStarted == phase = "Bidding" /\ player_bids = EmptyMap

\* C1: card conservation: the cards in all hands, in the current trick and in
\* the completed tricks (one card per player each) add up to
\* cards_per_player cards per player, in every reachable state.
CardConservation ==
    HandTotal(DOMAIN hands) + Len(current_trick.cards)
        + Len(completed_tricks) * Len(players)
    = cards_per_player * Len(players)

\* C2: deal size: right after GameState::new and after every start_round each
\* player's hand holds exactly cards_per_player cards, and cards_per_player
\* equals round_number.
DealSize ==
    RoundJustStarted =>
        /\ cards_per_player = round_number
        /\ \A p \in PlayerSet : Len(hands[p]) = cards_per_player

\* every card of the round, in hands, current trick and completed tricks
RECURSIVE ConcatHands(_)
ConcatHands(S) ==
    IF S = {} THEN <<>>
    ELSE LET p == CHOOSE q \in S : TRUE
         IN  hands[p] \o ConcatHands(S \ {p})

RECURSIVE ConcatTricks(_)
ConcatTricks(tricks) ==
    IF tricks = <<>> THEN <<>>
    ELSE [i \in 1..Len(Head(tricks).cards) |-> Head(tricks).cards[i].card]
         \o ConcatTricks(Tail(tricks))

AllCardsOfRound ==
    ConcatHands(DOMAIN hands)
    \o [i \in 1..Len(current_trick.cards) |-> current_trick.cards[i].card]
    \o ConcatTricks(completed_tricks)

\* C3: card uniqueness: no card occurs twice in the union of all hands, the
\* current trick and the completed tricks of the round.
CardUniqueness ==
    \A i, j \in 1..Len(AllCardsOfRound) :
        i # j => AllCardsOfRound[i] # AllCardsOfRound[j]

\* C3 witness: a card has moved from a hand through the current trick into a
\* completed trick while other cards are in hands and in the current trick.
CardUniquenessWitness ==
    /\ completed_tricks # <<>>
    /\ current_trick.cards # <<>>
    /\ \E p \in PlayerSet : hands[p] # <<>>

\* C4: bidding sum rule: once phase has left Bidding every player has a
\* recorded bid, no bid exceeds cards_per_player and the bids do not add up
\* to cards_per_player.
BiddingSumRule ==
    phase # "Bidding" =>
        /\ DOMAIN player_bids = PlayerSet
        /\ \A p \in PlayerSet : player_bids[p] <= cards_per_player
        /\ SumValues(player_bids) # cards_per_player

\* C4 witness: bidding is over and the bids went past the forbidden sum.
BiddingSumRuleWitness ==
    /\ phase = "Playing"
    /\ DOMAIN player_bids = PlayerSet
    /\ SumValues(player_bids) > cards_per_player

\* the step is an accepted apply_action(last'.player, PlayCard(last'.action.card))
AcceptedPlayCard == last'.result = "Ok" /\ last'.action.kind = "PlayCard"

\* the step is an accepted apply_action(last'.player, Bid(last'.action.tricks))
AcceptedBid == last'.result = "Ok" /\ last'.action.kind = "Bid"

\* before an accepted PlayCard: phase, turn, card in hand, suit followed
LegalBefore ==
    LET p == last'.player
        c == last'.action.card
        lead == current_trick.lead_suit
    IN  /\ phase = "Playing"
        /\ p = current_player
        /\ p \in DOMAIN hands
        /\ HasCard(hands[p], c)
        /\ (\E i \in 1..Len(hands[p]) : hands[p][i].suit = lead) => c.suit = lead

\* C5 as stated: every accepted PlayCard(c) from p was legal (phase Playing,
\* p current, c in hands[p], lead suit followed when p held it) and after the
\* action c is no longer in hands[p].
LegalMoveCardGone ==
    [][AcceptedPlayCard =>
          /\ LegalBefore
          /\ ~HasCard(hands'[last'.player], last'.action.card)]_vars

\* C5 amended: every accepted PlayCard(c) from p was legal, and after the
\* action c is no longer in hands[p] unless the card completed the round and
\* the same call dealt the next round.
LegalMove ==
    [][AcceptedPlayCard =>
          /\ LegalBefore
          /\ round_number' = round_number =>
                ~HasCard(hands'[last'.player], last'.action.card)]_vars

\* C5 witness: a player has just followed the lead suit while still holding a
\* card of another suit.
LegalMoveWitness ==
    /\ last.result = "Ok"
    /\ last.action.kind = "PlayCard"
    /\ Len(current_trick.cards) >= 2
    /\ last.action.card.suit = current_trick.lead_suit
    /\ \E i \in 1..Len(hands[last.player]) :
           hands[last.player][i].suit # current_trick.lead_suit

\* the trick comparison rule: a beats b given trump and lead suit
RuleBeats(a, b, trump, lead) ==
    \/ a.suit = trump /\ b.suit # trump
    \/ a.suit = trump /\ b.suit = trump /\ a.rank > b.rank
    \/ a.suit # trump /\ b.suit # trump /\ a.suit = lead /\ b.suit # lead
    \/ a.suit # trump /\ b.suit # trump /\ a.suit = lead /\ b.suit = lead
       /\ a.rank > b.rank

\* the entries of trick t whose card beats every other card of t
BeatsAll(t) ==
    {i \in 1..Len(t.cards) :
        \A j \in 1..Len(t.cards) :
            j # i => RuleBeats(t.cards[i].card, t.cards[j].card, trump_suit,
                               t.cards[1].card.suit)}

\* C6: trick winner correctness: the winner recorded with a completed trick
\* is a player of the game, played exactly one card of the trick, and that
\* card is the only one that beats every other card of the trick.
TrickWinnerCorrect ==
    \A k \in 1..Len(completed_tricks) :
        LET t == completed_tricks[k]
        IN  /\ t.winner \in PlayerSet
            /\ Len(t.cards) = Len(players)
            /\ Cardinality(BeatsAll(t)) = 1
            /\ \A i \in 1..Len(t.cards) :
                   t.cards[i].player = t.winner <=> i \in BeatsAll(t)

\* C6 witness: a completed trick that a later player won with a trump on a
\* lead of another suit.
TrickWinnerWitness ==
    \E k \in 1..Len(completed_tricks) :
        LET t == completed_tricks[k]
        IN  /\ t.cards[1].card.suit # trump_suit
            /\ t.cards[1].player # t.winner
            /\ \E i \in 1..Len(t.cards) :
                   /\ t.cards[i].player = t.winner
                   /\ t.cards[i].card.suit = trump_suit

\* the step is the accepted card that completes the last trick of a round:
\* it is the only card left in any hand and the trick lacks just this card
RoundCompletes ==
    /\ AcceptedPlayCard
    /\ Len(current_trick.cards) = Len(players) - 1
    /\ \A q \in PlayerSet :
           Len(hands[q]) = IF q = last'.player THEN 1 ELSE 0

\* the trick that the accepted card of this step completes
FinalTrick ==
    [cards |-> Append(current_trick.cards,
                      [player |-> last'.player, card |-> last'.action.card])]

\* tricks won by p in the round that this step completes
TricksWonAtEnd(p) ==
    LET w == FinalTrick.cards[CHOOSE i \in BeatsAll(FinalTrick) : TRUE].player
    IN  tricks_won[p] + IF p = w THEN 1 ELSE 0

\* the scoring law for bid b and t tricks won
ScoreLaw(b, t) == IF b = t THEN 10 + t * t ELSE -((t - b) * (t - b))

\* C7: scoring law: the step that completes a round changes total_scores[p]
\* of every player p by ScoreLaw(bid of p, tricks won by p in the round);
\* no other step changes total_scores.
ScoringLaw ==
    [][IF RoundCompletes
       THEN \A p \in PlayerSet :
                total_scores'[p] - total_scores[p]
                    = ScoreLaw(player_bids[p], TricksWonAtEnd(p))
       ELSE total_scores' = total_scores]_vars

\* C7 witness: a round has just been scored, one player made the bid and
\* another missed it.
ScoringLawWitness ==
    /\ last.result = "Ok"
    /\ last.action.kind = "PlayCard"
    /\ phase = "GameComplete" \/ RoundJustStarted
    /\ \E p \in PlayerSet : total_scores[p] >= 10
    /\ \E p \in PlayerSet : total_scores[p] < 0

\* the last round: floor(deck size / number of players)
NMax == TotalCards(num_ranks) \div Len(players)

AllHandsEmpty == \A p \in PlayerSet : hands[p] = <<>>

\* the current round has been scored (start_round clears round_scores)
RoundScored == round_scores # EmptyMap

\* round_number is in range and the game is complete exactly when the last
\* round has been scored with all hands empty
RoundInRange ==
    /\ round_number \in 1..NMax
    /\ phase = "GameComplete"
           <=> (round_number = NMax /\ AllHandsEmpty /\ RoundScored)

\* C8: phase progression: the game is in GameComplete iff round_number = NMax
\* and all hands are empty after that round was scored; round_number stays in
\* 1..NMax, never decreases, and changes exactly when a round before the last
\* one completes, by one; completing the last one ends the game.
PhaseProgression ==
    /\ RoundInRange
    /\ [][/\ RoundInRange'
          /\ round_number' >= round_number
          /\ (RoundCompletes /\ round_number < NMax)
                 <=> round_number' # round_number
          /\ round_number' # round_number => round_number' = round_number + 1
          /\ (RoundCompletes /\ round_number = NMax)
                 <=> (phase # "GameComplete" /\ phase' = "GameComplete")]_vars

\* C8 witness: the game is complete in its last round after a round ended.
PhaseProgressionWitness ==
    /\ phase = "GameComplete"
    /\ round_number = NMax
    /\ AllHandsEmpty
    /\ Len(completed_tricks) >= 1

\* the step is the accepted bid of the only player who had not bid yet
LastBidAccepted ==
    /\ AcceptedBid
    /\ PlayerSet \ DOMAIN player_bids = {last'.player}

\* C9: phase state machine: the phase changes only Bidding -> Playing, on the
\* accepted bid of the last player without a bid and on every such bid,
\* Playing -> Bidding of the next round and Playing -> GameComplete, both on
\* the card that completes the round; in Playing every player has one
\* recorded bid; in GameComplete every call is rejected and changes nothing.
PhaseMachine ==
    [][/\ phase' \in {"Bidding", "Playing", "GameComplete"}
       /\ phase' # phase =>
            \/ phase = "Bidding" /\ phase' = "Playing" /\ LastBidAccepted
            \/ /\ phase = "Playing" /\ phase' = "Bidding"
               /\ RoundCompletes
               /\ round_number' = round_number + 1
            \/ phase = "Playing" /\ phase' = "GameComplete" /\ RoundCompletes
       /\ LastBidAccepted => phase = "Bidding" /\ phase' = "Playing"
       /\ phase' = "Playing" => DOMAIN player_bids' = PlayerSet
       /\ phase = "GameComplete" =>
            last'.result # "Ok" /\ UNCHANGED gameVars]_vars

\* C9 witness: the game is complete and the current player's call was rejected.
PhaseMachineWitness ==
    /\ phase = "GameComplete"
    /\ last.result = "InvalidMove"

\* C10: transactional apply: a call of apply_action that returns an error
\* leaves every field of the GameState as it was.
TransactionalApply ==
    [][last'.result # "Ok" => UNCHANGED gameVars]_vars

\* C10 witness: a call was rejected in the middle of a trick, after an
\* earlier trick was completed.
TransactionalApplyWitness ==
    /\ last.result \in {"NotPlayerTurn", "PlayerNotInGame", "InvalidMove"}
    /\ phase = "Playing"
    /\ current_trick.cards # <<>>
    /\ completed_tricks # <<>>

\* C11: auto-action validity: whenever the phase is Bidding or Playing,
\* get_auto_action returns an action that passes validate_action for
\* current_player; in Bidding it is Bid(0) when Bid(0) is permitted and
\* Bid(1) otherwise.
AutoActionValid ==
    phase \in {"Bidding", "Playing"} =>
        /\ GetAutoAction(State) # NoAction
        /\ ValidateAction(State, current_player, GetAutoAction(State)) = "Ok"
        /\ phase = "Bidding" =>
              GetAutoAction(State) =
                  IF ValidateAction(State, current_player, BidAction(0)) = "Ok"
                  THEN BidAction(0) ELSE BidAction(1)

\* the hands of state s with the hands of the players other than p changed:
\* one of them emptied or given another player's hand, all of them emptied,
\* or all of them passed on to the next player
OtherHandsVariants(s, p) ==
    LET others == (DOMAIN s.hands) \ {p}
    IN  {[s.hands EXCEPT ![q] = h] :
            q \in others, h \in {<<>>} \cup {s.hands[r] : r \in DOMAIN s.hands}}
        \cup {[q \in DOMAIN s.hands |-> IF q = p THEN s.hands[p] ELSE <<>>]}
        \cup {[q \in DOMAIN s.hands |->
                 IF q = p THEN s.hands[p]
                 ELSE LET r == NextInOrder(s.players, q)
                      IN  IF r = p THEN s.hands[NextInOrder(s.players, p)]
                          ELSE s.hands[r]]}

\* C13: privacy: the view get_player_view returns for p is the same in any
\* two game states that differ only in the hands of the players other than
\* p, and your_hand holds only cards of hands[p].
ViewPrivacy ==
    \A p \in PlayerSet :
        /\ \A h \in OtherHandsVariants(State, p) :
              GetPlayerView([State EXCEPT !.hands = h], p)
                  = GetPlayerView(State, p)
        /\ SeqToSet(GetPlayerView(State, p).your_hand) \subseteq SeqToSet(hands[p])

\* C13 witness: a view is taken for a player who is not to move while the
\* other players hold cards that differ from that player's.
ViewPrivacyWitness ==
    /\ phase = "Playing"
    /\ current_trick.cards # <<>>
    /\ \E p \in PlayerSet :
          /\ p # current_player
          /\ hands[p] # <<>>
          /\ hands[current_player] # <<>>
          /\ hands[current_player] # hands[p]
          /\ \E h \in OtherHandsVariants(State, p) : h # hands

\* the cards of the deck the game is played with
DeckCards == {c \in Cards : c.rank < num_ranks}

\* C28: card comparison: for all cards a # b of the deck, every trump (or
\* none) and every lead suit, Card::beats is true exactly in the four cases
\* of the trick comparison rule and false in every other case.
CardComparison ==
    \A a, b \in DeckCards, trump \in SuitSet \cup {NoSuit}, lead \in SuitSet :
        a # b => (Beats(a, b, trump, lead) <=> RuleBeats(a, b, trump, lead))

\* what place_bid has to answer to player_id bidding `bid` on bs: the error
\* of the first test that fails, or Ok
PlaceBidAnswer(bs, player_id, bid) ==
    IF player_id # bs.current_bidder THEN "NotPlayerTurn"
    ELSE IF bid > bs.cards_this_round THEN "InvalidMove"
    ELSE IF /\ Cardinality(DOMAIN bs.bids) = Len(bs.player_order) - 1
            /\ SumValues(bs.bids) + bid = bs.cards_this_round
    THEN "InvalidMove"
    ELSE "Ok"

\* C29: BiddingState::place_bid answers NotPlayerTurn to a caller who is not
\* current_bidder, InvalidMove to a bid above cards_this_round and to the
\* last bidder's bid that brings the sum of bids to cards_this_round, and
\* changes nothing then; after an InvalidMove the same player has another
\* bid that is accepted; an accepted bid is recorded and current_bidder
\* moves to the next player of player_order, wrapping, unless every player
\* has bid.
PlaceBidContract ==
    \A k \in DOMAIN bidding_state :
        \A p \in Callers, bid \in 0..(MaxBid + 1) :
            \E bs \in {bidding_state[k]} :
            \E r \in {PlaceBid(bs, p, bid)} :
                /\ r.result = PlaceBidAnswer(bs, p, bid)
                /\ r.result # "Ok" => r.bs = bs
                /\ r.result = "InvalidMove" =>
                      \E other \in 0..bs.cards_this_round :
                          other # bid /\ PlaceBid(bs, p, other).result = "Ok"
                /\ r.result = "Ok" =>
                      /\ r.bs.bids = Insert(bs.bids, p, bid)
                      /\ r.bs.player_order = bs.player_order
                      /\ r.bs.cards_this_round = bs.cards_this_round
                      /\ r.bs.current_bidder =
                            IF DOMAIN r.bs.bids = SeqToSet(bs.player_order)
                            THEN bs.current_bidder
                            ELSE bs.player_order[
                                     ((IndexOf(bs.player_order,
                                               bs.current_bidder) + 1)
                                          % Len(bs.player_order)) + 1]

\* C29 witness: the last bidder's bid that would bring the sum to
\* cards_this_round has just been rejected, and the bids before it moved
\* the turn on.
PlaceBidWitness ==
    /\ phase = "Bidding"
    /\ last.result = "InvalidMove"
    /\ \E k \in DOMAIN bidding_state :
          /\ IsLastBidder(bidding_state[k], bidding_state[k].current_bidder)
          /\ bidding_state[k].current_bidder # bidding_state[k].player_order[1]
          /\ SumValues(bidding_state[k].bids) <= bidding_state[k].cards_this_round

\* the seat after p in the order of players, wrapping
SeatAfter(p) == players[((IndexOf(players, p) + 1) % Len(players)) + 1]

\* C31: trick completion effects: when an accepted card brings current_trick
\* to one card per player and a card is left in some hand, the trick is
\* appended to completed_tricks with its winner, tricks_won of the winner
\* grows by 1 and of nobody else, current_trick is empty without a lead suit
\* and the winner is the current player; an accepted card that does not
\* complete the trick passes the turn to the next seat
TrickCompletionEffects ==
    [][AcceptedPlayCard =>
          \E p \in {last'.player} :
          \E t \in {AddCard(current_trick, p, last'.action.card)} :
              IF Len(t.cards) = Len(players)
              THEN (\E q \in PlayerSet :
                        Len(hands[q]) > (IF q = p THEN 1 ELSE 0)) =>
                      /\ Len(completed_tricks') = Len(completed_tricks) + 1
                      /\ \E w \in {completed_tricks'[Len(completed_tricks')]
                                       .winner} :
                            /\ completed_tricks' =
                                   Append(completed_tricks,
                                          [winner |-> w, cards |-> t.cards,
                                           points |-> 0])
                            /\ \E i \in BeatsAll(t) : t.cards[i].player = w
                            /\ \A q \in PlayerSet :
                                  tricks_won'[q] =
                                      tricks_won[q] + (IF q = w THEN 1 ELSE 0)
                            /\ current_trick'.cards = <<>>
                            /\ current_trick'.lead_suit = NoSuit
                            /\ current_player' = w
              ELSE current_player' = SeatAfter(current_player)
      ]_vars

\* a trick was just completed with cards left in hand, and the player who
\* played last won it and leads the next one
TrickCompletionWitness ==
    /\ last.result = "Ok"
    /\ last.action.kind = "PlayCard"
    /\ phase = "Playing"
    /\ completed_tricks # <<>>
    /\ current_trick.cards = <<>>
    /\ \E q \in PlayerSet : hands[q] # <<>>
    /\ Len(players) > 2
    /\ current_player = last.player
    /\ completed_tricks[Len(completed_tricks)].winner = last.player

\* the seat that bids k-th (counting from 0) in a round opened by first_bidder
BidSeat(k) == players[((IndexOf(players, first_bidder) + k) % Len(players)) + 1]

Submittable ==
    {BidAction(b) : b \in 0..MaxBid} \cup {PlayCardAction(c) : c \in Cards}

\* C36: in every state with phase Bidding or Playing the current player has
\* an action that validate_action accepts; the game is never in Playing
\* with a current player whose hand is empty.
CurrentPlayerCanMove ==
    phase \in {"Bidding", "Playing"} =>
        \E a \in Submittable : ValidateAction(State, current_player, a) = "Ok"

(***************************************************************************)
(* Properties of the connection manager and the transports (ConnSpec)      *)
(***************************************************************************)
\* the step is the call of reconnect_player by transport t
ReconnectStep(t) ==
    /\ transports[t].pc = "connecting"
    /\ transports'[t].pc \in {"reconnected", "new_session"}

\* the session of player_id is inactive and its reconnect timeout has passed
GraceOver(player_id) ==
    /\ player_id \in DOMAIN sessions
    /\ ~sessions[player_id].is_active
    /\ sessions[player_id].disconnected_at # NoInstant
    /\ clock - sessions[player_id].disconnected_at > ReconnectTimeoutSecs

\* the session of player_id is inactive and within its reconnect timeout
InGrace(player_id) ==
    /\ player_id \in DOMAIN sessions
    /\ ~sessions[player_id].is_active
    /\ sessions[player_id].disconnected_at # NoInstant
    /\ clock - sessions[player_id].disconnected_at <= ReconnectTimeoutSecs

\* what get_game_state returns to player_id
ViewOf(player_id) == GetGameState(games, State, TheGame, player_id)

\* C17: reconnect idempotence: reconnect_player for a player whose session
\* was marked inactive at most the reconnect timeout ago succeeds and leaves
\* one session under the same id, active, with disconnected_at cleared and
\* bound to the new sink; the other sessions are as before; a message sent
\* to a player is queued on the sink of that player's active session only;
\* and no step that changes a session (detach or attach) changes what
\* get_game_state returns to any player.
ReconnectRestores ==
    [][/\ \A t \in DOMAIN transports :
            (ReconnectStep(t) /\ InGrace(transports[t].player)) =>
                /\ transports'[t].pc = "reconnected"
                /\ DOMAIN sessions' = DOMAIN sessions
                /\ sessions'[transports[t].player] = NewSession(t)
                /\ \A q \in (DOMAIN sessions) \ {transports[t].player} :
                      sessions'[q] = sessions[q]
       /\ \A c \in DOMAIN channels :
            (/\ Len(channels'[c].received) > Len(channels[c].received)
             /\ channels'[c].received[Len(channels'[c].received)].tag = "Pong")
            => LET to == channels'[c].received[Len(channels'[c].received)].player
               IN  /\ to \in DOMAIN sessions
                   /\ sessions[to].is_active
                   /\ sessions[to].ws_sender = c
       /\ sessions' # sessions =>
            \A q \in SeqToSet(players) : ViewOf(q)' = ViewOf(q)]_vars

\* C17 witness: the only player who ever connected left, came back on a
\* second transport within the timeout after time had passed, and a later
\* message was queued on the new sink.
ReconnectRestoresWitness ==
    /\ Len(transports) = 2
    /\ transports[1].player = transports[2].player
    /\ transports[1].pc = "closed"
    /\ transports[2].pc = "running"
    /\ transports[2].holds_tx
    /\ clock > 0
    /\ clock <= ReconnectTimeoutSecs
    /\ sessions[transports[2].player] = NewSession(2)
    /\ channels[2].received # <<>>
    /\ channels[2].received[1].tag = "Pong"

\* C18: reconnect after grace is rejected: reconnect_player returns None and
\* leaves every session as it was when the player's session is inactive for
\* longer than the reconnect timeout, and when the player has no session.
ReconnectRejected ==
    [][\A t \in DOMAIN transports :
          (/\ ReconnectStep(t)
           /\ \/ GraceOver(transports[t].player)
              \/ transports[t].player \notin DOMAIN sessions)
          => /\ transports'[t].pc = "new_session"
             /\ sessions' = sessions]_vars

\* C18 witness: reconnect_player has returned None to a transport whose
\* player has a session that is inactive for longer than the timeout.
ReconnectRejectedWitness ==
    \E t \in DOMAIN transports :
        /\ transports[t].pc = "new_session"
        /\ GraceOver(transports[t].player)

\* C19: single active session per identity: when reconnect_player is called
\* for a player whose session is active, the session is bound to the new
\* sink and stays active, and the old sink is closed: no sender of the old
\* channel is left, so that the old transport's send_task ends.
SingleActiveSession ==
    [][\A t \in DOMAIN transports :
          (/\ ReconnectStep(t)
           /\ transports[t].player \in DOMAIN sessions
           /\ sessions[transports[t].player].is_active)
          => /\ sessions'[transports[t].player] = NewSession(t)
             /\ channels'[sessions[transports[t].player].ws_sender].senders = 0
      ]_vars

\* transport t is the one p's session is bound to, and it is up: its tasks
\* run and its socket is open
BoundAndOpen(p, t) ==
    /\ p \in DOMAIN sessions
    /\ sessions[p].ws_sender = t
    /\ t \in DOMAIN transports
    /\ transports[t].player = p
    /\ transports[t].pc = "running"
    /\ transports[t].socket_open

\* C38: a session whose most recently attached transport is still open is
\* active, whatever the transports attached before it do: the closing of an
\* older transport of the same identity does not set the session inactive.
StaleTransportHarmless ==
    \A p \in DOMAIN sessions, t \in DOMAIN transports :
        BoundAndOpen(p, t) => sessions[p].is_active

(***************************************************************************)
(* Properties of the game manager as the server wires it (MgrSpec)         *)
(***************************************************************************)
\* no call of handle_player_action is between its first await and its last
\* broadcast
NoCallInFlight == \A p \in DOMAIN calls : calls[p] = NoHandling

\* no call of start_turn_timer is between its first await and its last
NoArming == arming.cancelled = 0 /\ arming.spawned = {}

\* C12: timeout response: from create_game on, whenever the game is in
\* Bidding or Playing and no call is under way, a turn timer is armed for
\* the current player: its task sleeps until the turn deadline and its
\* handle is the one stored for the game.
TurnTimerArmed ==
    (/\ TheGame \in games
     /\ phase \in {"Bidding", "Playing"}
     /\ NoCallInFlight
     /\ NoArming)
    => /\ timer_handles # NoTask
       /\ tasks[timer_handles].st = "sleeping"
       /\ tasks[timer_handles].player = current_player
       /\ tasks[timer_handles].deadline = turn_deadline

\* the PlayerAction, TrickComplete and GameOver messages enqueued on the
\* sink of player_id's session
GameMessages(player_id) ==
    LET IsGameMessage(m) == m.tag \in {"PlayerAction", "TrickComplete", "GameOver"}
    IN  SelectSeq(channels[sessions[player_id].ws_sender].received, IsGameMessage)

\* C14: broadcast order: the sinks of any two players of the game whose
\* sessions are active hold the same sequence of PlayerAction, TrickComplete
\* and GameOver messages, and on every sink these messages follow the order
\* in which the actions were applied to the game state.
BroadcastOrder ==
    \A p \in SeqToSet(players) :
        (p \in DOMAIN sessions /\ sessions[p].is_active) =>
            /\ \A q \in SeqToSet(players) :
                  (q \in DOMAIN sessions /\ sessions[q].is_active) =>
                      GameMessages(q) = GameMessages(p)
            /\ \A i, j \in DOMAIN GameMessages(p) :
                  i < j => GameMessages(p)[i].seq <= GameMessages(p)[j].seq

\* C20: game removal at completion: once the action that completes the last
\* round has been handled and GameOver has been broadcast, the game is no
\* longer in the registry and handle_player_action fails with GameNotFound
\* for every bid and every card of every player of the game.
GameRemoved ==
    (phase = "GameComplete" /\ NoCallInFlight) =>
        /\ TheGame \notin games
        /\ \A p \in SeqToSet(players) :
              /\ \A tricks \in 0..MaxBid :
                    HandlePlayerAction(games, State, TheGame, p,
                                       BidAction(tricks), 0, NoSuit).result
                        = "GameNotFound"
              /\ \A c \in Cards :
                    HandlePlayerAction(games, State, TheGame, p,
                                       PlayCardAction(c), 0, NoSuit).result
                        = "GameNotFound"

\* the step is the one in which the call of handle_player_action for
\* player_id applies its action
Accepted(player_id) ==
    /\ calls[player_id].called
    /\ ~calls'[player_id].called
    /\ calls'[player_id].outbox # <<>>

\* the tags of a sequence of messages
Tags(msgs) == [i \in DOMAIN msgs |-> msgs[i].tag]

\* C27: broadcast sequence of an action: a successful handle_player_action
\* broadcasts PlayerAction of the player, then TrickComplete if and only if
\* the action was the card that completed a trick (the last trick of a
\* round too), with the winner of that trick, then GameOver with the final
\* scores if and only if the action ended the game.
BroadcastSequence ==
    [][\A p \in DOMAIN calls :
          Accepted(p) =>
              \E msgs \in {calls'[p].outbox} :
              \E action \in {msgs[1].action} :
              \E completes \in {/\ action.kind = "PlayCard"
                                /\ Len(current_trick.cards) + 1 = Len(players)} :
                  /\ msgs[1].player = p
                  /\ Tags(msgs) =
                        <<"PlayerAction">>
                        \o (IF completes THEN <<"TrickComplete">> ELSE <<>>)
                        \o (IF phase' = "GameComplete"
                            THEN <<"GameOver">> ELSE <<>>)
                  /\ completes =>
                        msgs[2].player =
                            TrickWinner(AddCard(current_trick, p, action.card),
                                        trump_suit)
                  /\ phase' = "GameComplete" =>
                        msgs[Len(msgs)].scores = total_scores'
      ]_vars

(***************************************************************************)
(* Properties of the turn timers (TimerSpec)                               *)
(***************************************************************************)
\* the step is one of the timer task t past its read-locked check
TimerStep(t) == tasks[t].st = "checked" /\ tasks'[t] # tasks[t]

\* C15: stale timer is a no-op: when an action has been applied to the game
\* since the timer task was armed, the task changes no game state and goes
\* on to broadcast nothing, also when the player it was armed for is the
\* current player again.
StaleTimerNoOp ==
    [][\A t \in DOMAIN tasks :
          (TimerStep(t) /\ applied # tasks[t].armed) =>
              /\ State' = State
              /\ tasks'[t].st # "applied"]_vars

\* the timer tasks that run or sleep and that no abort has reached
LiveTimers == {t \in DOMAIN tasks : tasks[t].st # "done" /\ ~tasks[t].aborted}

\* C16: at most one timer per game: the game has at most one live timer
\* task, and once start_turn_timer has stored its handle the handle in
\* timer_handles is the handle of that task.
OneTimerPerGame ==
    /\ Cardinality(LiveTimers) <= 1
    /\ \A t \in LiveTimers : t \notin arming.spawned => timer_handles = t

\* the step is the return of an error by the call of handle_player_action
\* made for player p
Rejected(p) == calls[p].called /\ calls'[p] = NoHandling

\* C25: rejected requests change nothing: a call of handle_player_action that
\* returns an error has left the game state, the game's pending turn timer
\* and the registry unchanged and has broadcast nothing to the game
RejectedChangesNothing ==
    [][\A p \in DOMAIN calls :
          Rejected(p) =>
              /\ ~calls[p].removed
              /\ State' = State
              /\ games' = games
              /\ timer_handles' = timer_handles
              /\ channels' = channels
      ]_vars

\* the step is the timer task t applying its auto action to the game
AutoApplied(t) == tasks[t].st = "checked" /\ tasks'[t].st = "applied"

\* the step is the end of a timer task t that applied its auto action
AutoFinished(t) ==
    /\ tasks[t].st = "finishing"
    /\ tasks[t].seq > 0
    /\ tasks'[t].st = "done"
    /\ ~tasks[t].aborted

\* C30: the auto action of an expired timer is equivalent to the player's
\* own action: the game becomes what handle_player_action makes of it, the
\* task broadcasts the messages handle_player_action broadcasts, and when
\* the task ends a timer is armed for the next turn
AutoActionEquivalent ==
    [][\A t \in DOMAIN tasks :
          /\ AutoApplied(t) =>
                \E p \in {tasks[t].player}, a \in {tasks[t].action} :
                    /\ \E seed \in Seeds, trump \in SuitSet \cup {NoSuit} :
                          State' = HandlePlayerAction(games, State, TheGame, p,
                                                      a, seed, trump).state
                    /\ TimerMessages(p, a, applied')
                          = ActionMessages(State, State', p, a, applied')
          /\ (AutoFinished(t) /\ phase # "GameComplete") =>
                timer_handles' # NoTask
      ]_vars

(***************************************************************************)
(* Properties of the lobby manager (LobbySpec)                             *)
(***************************************************************************)
\* the members of a lobby are distinct
NoDuplicates(seq) == \A i, j \in DOMAIN seq : seq[i] = seq[j] => i = j

\* C21: lobby capacity: join_lobby on a lobby that has max_players members
\* returns LobbyFull and leaves the lobby as it was; every stored lobby has
\* at most max_players members and no player twice
LobbyCapacity ==
    /\ (answer.op = "join" /\ answer.before # NoLobby
            /\ Len(answer.before.players) = answer.before.max_players) =>
          /\ answer.result = "LobbyFull"
          /\ LobbyOf(lobbies, answer.lobby) = answer.before
    /\ \A l \in DOMAIN lobbies :
          /\ Len(lobbies[l].players) <= lobbies[l].max_players
          /\ NoDuplicates(lobbies[l].players)

\* the latest call was leave_lobby of a member of a stored lobby
MemberLeft ==
    /\ answer.op = "leave"
    /\ answer.before # NoLobby
    /\ answer.player \in SeqToSet(answer.before.players)

ListedIds == {info.id : info \in answer.list}

\* C24: lobby listing: list_lobbies returns exactly the stored lobbies with
\* fewer than max_players members, each once and as it is stored; a full
\* lobby and a removed lobby are not in the list
ListContract ==
    answer.op = "list" =>
        /\ ListedIds = {l \in DOMAIN lobbies :
                           Len(lobbies[l].players) < lobbies[l].max_players}
        /\ Cardinality(answer.list) = Cardinality(ListedIds)
        /\ \A info \in answer.list :
              /\ info.host = lobbies[info.id].host
              /\ info.max_players = lobbies[info.id].max_players

\* list_lobbies returned one lobby and left out a full one
ListWitness ==
    /\ answer.op = "list"
    /\ answer.list # {}
    /\ \E l \in DOMAIN lobbies :
          /\ Len(lobbies[l].players) = lobbies[l].max_players
          /\ l \notin ListedIds

\* the step is the return of the call start_game(l, p)
StartGameReturns(l, p) ==
    /\ answer' # answer
    /\ answer'.op = "start"
    /\ answer'.lobby = l
    /\ answer'.player = p

\* C23: start_game preconditions: start_game returns LobbyNotFound for a
\* lobby that is not stored, NotHost to a caller who is not the host and
\* NotEnoughPlayers for a lobby of fewer than 2 members, and then has
\* created no game and left the lobbies as they were; a call that goes on
\* was made by the host of a lobby of at least 2 members, and when it
\* returns Ok a game of the members it read is stored and the lobby is not
StartGameContract ==
    [][/\ \A l \in LobbyIds, p \in Users :
             (StartGameReturns(l, p) /\ answer'.result # "Ok") =>
                 /\ answer'.result =
                        (IF l \notin DOMAIN lobbies THEN "LobbyNotFound"
                         ELSE IF lobbies[l].host # p THEN "NotHost"
                         ELSE "NotEnoughPlayers")
                 /\ answer'.result = "NotEnoughPlayers" =>
                        Len(lobbies[l].players) < 2
                 /\ lobbies' = lobbies
                 /\ started' = started
                 /\ starts' = starts
       /\ Len(starts') > Len(starts) =>
             \E c \in {starts'[Len(starts')]} :
                 /\ c.lobby \in DOMAIN lobbies
                 /\ lobbies[c.lobby].host = c.caller
                 /\ Len(lobbies[c.lobby].players) >= 2
                 /\ c.players = lobbies[c.lobby].players
                 /\ lobbies' = lobbies
                 /\ started' = started
       /\ \A l \in LobbyIds, p \in Users :
             (StartGameReturns(l, p) /\ answer'.result = "Ok") =>
                 /\ l \notin DOMAIN lobbies'
                 /\ \E c \in DOMAIN starts :
                       /\ starts[c].lobby = l
                       /\ starts[c].caller = p
                       /\ starts'[c].st = "done"
                       /\ starts[c].game \in DOMAIN started'
                       /\ started'[starts[c].game] = starts[c].players
      ]_vars

\* a game was started from one lobby and start_game was refused to a member
\* of another lobby who is not its host
StartGameWitness ==
    /\ Len(started) = 1
    /\ \E c \in DOMAIN starts : starts[c].st = "done"
    /\ answer.op = "start"
    /\ answer.result = "NotHost"
    /\ answer.player \in SeqToSet(answer.before.players)

\* C40: every lobby stored in the registry has at least one member, and its
\* host is one of its members.
LobbyWellFormed ==
    \A l \in DOMAIN lobbies :
        /\ lobbies[l].players # <<>>
        /\ lobbies[l].host \in SeqToSet(lobbies[l].players)

\* leave_lobby has returned Ok to a player who was not a member of the
\* lobby, which is still stored with more than one member
LobbyWellFormedWitness ==
    /\ answer.op = "leave"
    /\ answer.result = "Ok"
    /\ answer.lobby \in DOMAIN lobbies
    /\ answer.player \notin SeqToSet(answer.before.players)
    /\ Len(lobbies[answer.lobby].players) > 1
    /\ started # <<>>

\* C37: start_game is atomic: when it returns Ok, the players of the game
\* it created are exactly the members the lobby had when it was removed.
StartGameAtomic ==
    \A c \in DOMAIN starts :
        (/\ starts[c].st = "done"
         /\ answer.op = "start"
         /\ answer.result = "Ok"
         /\ answer.lobby = starts[c].lobby) =>
            started[starts[c].game] = answer.before.players

(***************************************************************************)
(* Properties of the game manager with several games (RegSpec)             *)
(***************************************************************************)
\* the step is one of the call of handle_player_action made for q on game g
ActionStepOn(g, q) ==
    /\ call_map'[q] # call_map[q]
    /\ g = (IF call_map[q].game # 0 THEN call_map[q].game
            ELSE call_map'[q].game)

\* the step is one the timer task t of game g takes after its sleep
ExpiryStepOn(g, t) ==
    /\ task_list[t].st # "done"
    /\ task_list[t].game = g
    /\ task_list'[t].st # task_list[t].st
    /\ ~(task_list[t].st = "sleeping" /\ task_list'[t].st = "done")

\* the step leaves every game but g, its timer and its players as they were
OthersUntouched(g) ==
    /\ \A o \in GameIds \ {g} :
          /\ o \in DOMAIN game_map' <=> o \in DOMAIN game_map
          /\ o \in DOMAIN game_map => game_map'[o] = game_map[o]
          /\ o \in DOMAIN handle_map' <=> o \in DOMAIN handle_map
          /\ o \in DOMAIN handle_map => handle_map'[o] = handle_map[o]
          /\ arm_map'[o] = arm_map[o]
    /\ \A t \in DOMAIN task_list :
          (task_list[t].st # "done" /\ task_list[t].game # g) =>
              task_list'[t] = task_list[t]
    /\ \A q \in Pids \ GamePids(g) :
          /\ sessions'[q] = sessions[q]
          /\ channels'[sessions[q].ws_sender] = channels[sessions[q].ws_sender]

\* C26: cross-game isolation: a step of handle_player_action on game g,
\* accepted or rejected, and a step of a timer task of game g change no
\* other game, no other game's timer and no channel of a player who is not
\* in game g
CrossGameIsolation ==
    [][\A g \in GameIds :
          (\/ \E q \in Pids : ActionStepOn(g, q)
           \/ \E t \in DOMAIN task_list : ExpiryStepOn(g, t))
              => OthersUntouched(g)
      ]_vars

\* an action was applied to game 1 and broadcast while the timer of game 2
\* was armed, and that timer has applied its auto action and broadcast it
IsolationWitness ==
    /\ 1 \in DOMAIN game_map
    /\ game_map[1].applied = 1
    /\ Len(channels[1].received) = 2
    /\ 2 \in DOMAIN handle_map
    /\ \E t \in DOMAIN task_list :
          /\ task_list[t].st = "finishing"
          /\ task_list[t].game = 2
          /\ task_list[t].seq = 1

(***************************************************************************)
(* Properties of the connection manager's methods (SessSpec)               *)
(***************************************************************************)
\* the recipients ids reach in the registry ss: a session exists and is active
Reached(ss, ids) == {p \in ids : p \in DOMAIN ss /\ ss[p].is_active}

\* the latest call was a send
SendReturned == reply.op \in {"send_to_player", "broadcast_to_players"}

\* the message of the latest send
SentMessage ==
    IF reply.op = "send_to_player"
    THEN PlayerNotice("Pong", CHOOSE p \in reply.ids : TRUE)
    ELSE PlayerNotice("LobbyList", NoPlayer)

\* C33: when send_to_player or broadcast_to_players returns, the message
\* has been queued once on the sink of every recipient whose session existed
\* and was active at the call, and on no other channel; absent and inactive
\* recipients get nothing and the registry is unchanged.
NoDeliveryToInactive ==
    SendReturned =>
        /\ sessions = reply.sessions
        /\ DOMAIN channels = DOMAIN reply.channels
        /\ \A c \in DOMAIN channels :
              channels[c] =
                  IF \E p \in Reached(reply.sessions, reply.ids) :
                        reply.sessions[p].ws_sender = c
                  THEN [reply.channels[c] EXCEPT
                           !.received = Append(@, SentMessage)]
                  ELSE reply.channels[c]

\* a broadcast to three identities, one without a session and one inactive,
\* has reached the sink of the third and not the sink of the inactive one
NoDeliveryToInactiveWitness ==
    /\ reply.op = "broadcast_to_players"
    /\ \E p, q, r \in reply.ids :
          /\ p \notin DOMAIN sessions
          /\ q \in DOMAIN sessions
          /\ ~sessions[q].is_active
          /\ channels[sessions[q].ws_sender].received = <<>>
          /\ r \in DOMAIN sessions
          /\ sessions[r].is_active
          /\ channels[sessions[r].ws_sender].received = <<SentMessage>>

\* the sessions of ss that are inactive for longer than the reconnect timeout
Overdue(ss, now) ==
    {p \in DOMAIN ss : /\ ~ss[p].is_active
                       /\ now - ss[p].disconnected_at > ReconnectTimeoutSecs}

\* C34: cleanup_expired_sessions removes exactly the sessions that are
\* inactive with disconnected_at more than the reconnect timeout ago and
\* returns exactly their identities; active sessions and inactive ones
\* inside the grace window stay as they are.  mark_inactive of a stored
\* session keeps it, inactive, and returns exactly the other active
\* identities.
SessionSweep ==
    /\ reply.op = "cleanup_expired_sessions" =>
          /\ reply.returned = Overdue(reply.sessions, reply.now)
          /\ DOMAIN sessions = (DOMAIN reply.sessions) \ reply.returned
          /\ \A p \in DOMAIN sessions : sessions[p] = reply.sessions[p]
          /\ \A p \in DOMAIN reply.sessions :
                \/ reply.sessions[p].is_active
                \/ reply.now - reply.sessions[p].disconnected_at
                       <= ReconnectTimeoutSecs
                => p \in DOMAIN sessions
    /\ \A p \in reply.ids :
          (reply.op = "mark_inactive" /\ p \in DOMAIN reply.sessions) =>
              /\ DOMAIN sessions = DOMAIN reply.sessions
              /\ ~sessions[p].is_active
              /\ sessions[p].disconnected_at = reply.now
              /\ \A q \in (DOMAIN sessions) \ {p} :
                    sessions[q] = reply.sessions[q]
              /\ reply.returned =
                     {q \in (DOMAIN sessions) \ {p} : sessions[q].is_active}

\* a sweep has removed an expired session and kept an active one and an
\* inactive one that is still inside the grace window
SessionSweepWitness ==
    /\ reply.op = "cleanup_expired_sessions"
    /\ reply.returned # {}
    /\ \E q, r \in DOMAIN sessions :
          /\ sessions[q].is_active
          /\ ~sessions[r].is_active

(***************************************************************************)
(* Properties of the message router (RouterSpec)                           *)
(***************************************************************************)
\* the lobbies player p is a member of
LobbiesOf(p) == {l \in DOMAIN lobbies : p \in SeqToSet(lobbies[l].players)}

\* no call of handle_start_game is under way
NoStartRunning == \A c \in DOMAIN starts : starts[c].st \in {"done", "failed"}

\* C39: between the routed messages every player is a member of at most
\* one lobby, and player_to_lobby names a lobby for a player exactly when
\* the player is a member of that lobby.
OneLobbyPerPlayer ==
    NoStartRunning =>
        \A p \in Users :
            /\ Cardinality(LobbiesOf(p)) <= 1
            /\ \A l \in LobbyIds :
                  (p \in DOMAIN player_to_lobby /\ player_to_lobby[p] = l)
                      <=> l \in LobbiesOf(p)

\* the participants of game g
Participants(g) == SeqToSet(started[g])

\* C35: when handle_start_game returns Ok for the game g it created, every
\* participant of g has the player_to_game entry g and no player_to_lobby
\* entry, and nobody else has the player_to_game entry g; when it returns an
\* error both indices are as they were.
IndexHandOff ==
    [][/\ \A c \in DOMAIN starts :
             (starts[c].st = "started" /\ starts'[c].st = "done") =>
                 /\ \A q \in Participants(starts[c].game) :
                       /\ q \in DOMAIN player_to_game'
                       /\ player_to_game'[q] = starts[c].game
                       /\ q \notin DOMAIN player_to_lobby'
                 /\ \A q \in DOMAIN player_to_game' :
                       player_to_game'[q] = starts[c].game =>
                           q \in Participants(starts[c].game)
       /\ (\E c \in DOMAIN starts' :
               /\ starts'[c].st = "failed"
               /\ c \in DOMAIN starts => starts[c].st = "read") =>
              /\ player_to_game' = player_to_game
              /\ player_to_lobby' = player_to_lobby]_vars

====
